---------------------------- MODULE Spec2Model ----------------------------
(***************************************************************************)
(* Trace statistics of gpx-snippets: calculateStats (src/lib/stats.ts)     *)
(* and calculateDistance (src/lib/file.ts).                                *)
(*                                                                         *)
(* Numbers.  JavaScript numbers are modelled as integers.  A value of type *)
(* `T | null` or an optional field `x?: T` is a sequence of length at most *)
(* one: <<>> is null / undefined, <<v>> is the value v.  A Date is its     *)
(* getTime() value in milliseconds.  Coordinates come in two kinds.  On   *)
(* the quarter-turn grid they are whole degrees, where sin^2 and cos of    *)
(* the Haversine formula are exact: distances are whole metres (the        *)
(* fraction of a metre is dropped), they add exactly, and the result of    *)
(* the one division the code performs, totalDistance / 1000, is kept       *)
(* exactly as a fraction in lowest terms.  Near the origin they are tiny   *)
(* binary fractions of a degree, where Math.sin, Math.cos and Math.atan2   *)
(* return their argument or 1: there every number is an IEEE-754 double    *)
(* held bit for bit and every operation rounds to nearest, ties to even.   *)
(***************************************************************************)
EXTENDS Integers, Sequences, FiniteSets

VARIABLES
    points,   \* the track calculateStats is called on
    locals,   \* the local variables of the call that ran last
    result,   \* what the last call on points returned
    prev,     \* <<r>>: what the first call on points returned; <<>> before
    arg2,     \* the track of the last call on another track, <<>> if none
    res2,     \* what that call returned
    mid,      \* TRUE once a call on another track followed a call on points
    file,     \* the File handed to parseGPX / processGPXFile
    settled,  \* <<>> while the promise is pending, <<outcome>> once settled
    effects,  \* what has been done with the file so far, in order
    traceStats,         \* routes/gpx/+page.svelte: what its own calculateStats returned
    page,               \* which interpolation page is open
    map,                \* TRUE once initializeMap has given the page its map
    gpxData,            \* <<>> or <<the trace loaded last>>
    markers,            \* the circle markers on the map: [trace, live]
    selectedPoints,     \* the selection, in click order
    routeResult,        \* <<>> or <<the route shown>>
    isInterpolating,
    interpolationError, \* <<>> or <<message>>
    routingService,     \* "osrm" or "ors"
    uploads,            \* the files whose handleFileUpload has not returned yet
    routing,            \* <<>> or <<the routing request in flight>>
    abandoned,          \* the requests in flight of pages destroyed since
    layers,             \* the polylines on the map
    gpxLayer,           \* <<>> or <<id of the polyline the page holds as gpxLayer>>
    routeLayer,         \* <<>> or <<id of the polyline the page holds as routeLayer>>
    plots,              \* the plot calls awaiting import('leaflet'), oldest first
    created,            \* how many polylines the page has created so far
    env,                \* OPENROUTESERVICE_API_KEY: <<>> when unset, else <<key>>
    request,            \* <<>> or <<the body of the request POST is handling>>
    response,           \* <<>> or <<what POST returned>>
    thrown,             \* TRUE when POST threw instead of returning
    outbound,           \* the requests the server sent to OpenRouteService
    fetched,            \* the requests the client sent to /api/route
    browser,            \* $app/environment: TRUE in a browser
    geolocation,        \* what navigator.geolocation does when asked
    options,            \* the MapInitOptions given to initializeMap
    mapInit,            \* <<>> or <<the outcome of initializeMap>>
    formatted           \* <<>> or <<the last call of formatDuration>>

statsVars == <<points, locals, result, prev, arg2, res2, mid>>
fileVars == <<file, settled, effects>>
pageVars == <<traceStats>>
uiVars == <<page, map, gpxData, markers, selectedPoints, routeResult, isInterpolating,
            interpolationError, routingService, uploads, routing, abandoned, layers,
            gpxLayer, routeLayer, plots, created>>
apiVars == <<env, request, response, thrown, outbound, fetched>>
mapVars == <<browser, geolocation, options, mapInit>>
textVars == <<formatted>>
vars == <<statsVars, fileVars, pageVars, uiVars, apiVars, mapVars, textVars>>

NoPage == traceStats = <<>>

NoUI ==
    /\ page = "standalone"
    /\ map = FALSE
    /\ gpxData = <<>>
    /\ markers = {}
    /\ selectedPoints = <<>>
    /\ routeResult = <<>>
    /\ isInterpolating = FALSE
    /\ interpolationError = <<>>
    /\ routingService = "osrm"
    /\ uploads = {}
    /\ routing = <<>>
    /\ abandoned = <<>>
    /\ layers = {}
    /\ gpxLayer = <<>>
    /\ routeLayer = <<>>
    /\ plots = <<>>
    /\ created = 0

NoMap ==
    /\ browser = TRUE
    /\ geolocation = <<>>
    /\ options = <<>>
    /\ mapInit = <<>>

NoText == formatted = <<>>

NoApi ==
    /\ env = <<>>
    /\ request = <<>>
    /\ response = <<>>
    /\ thrown = FALSE
    /\ outbound = <<>>
    /\ fetched = <<>>

-----------------------------------------------------------------------------
(* Bounds and input sets                                                   *)

MaxLen == 3
MaxFocusLen == 4

undefined == <<>>
null == <<>>

Infinity == 1000000

Coords == {<<0, 0>>, <<0, 90>>}
Elevations == {10}
Times == {0, 1000}

CoordsRev == {<<0, 0>>, <<0, 90>>, <<90, 0>>}
CoordsWide == {<<0, 0>>, <<0, 90>>, <<0, 180>>, <<0, -90>>, <<90, 0>>, <<-90, 0>>}
ElevationsWide == {-5, 0, 5, 10, 20}
TimesWide == {0, 1000, 2000, 5000}

Opt(S) == {undefined} \cup {<<v>> : v \in S}

GPXPoint(C, E, T) ==
    {[lat |-> c[1], lon |-> c[2], elevation |-> e, time |-> t] :
        c \in C, e \in Opt(E), t \in Opt(T)}

TracksOf(P, n) == UNION {[1..k -> P] : k \in 0..n}

Tracks == TracksOf(GPXPoint(Coords, Elevations, Times), MaxLen)
DistTracks == TracksOf(GPXPoint(CoordsWide, {}, {}), MaxFocusLen)
ElevTracks == TracksOf(GPXPoint({<<0, 0>>}, ElevationsWide, {}), MaxFocusLen)
TimeTracks == TracksOf(GPXPoint({<<0, 0>>}, {}, TimesWide), MaxFocusLen)
RevTracks == TracksOf(GPXPoint(CoordsRev, {}, Times), MaxLen)

\* points near the origin: lat * 2^latExp and lon * 2^lonExp degrees, a step
\* of latitude being 2^54 steps of longitude; each place at time 0, the
\* origin at time 1000 as well
NearCoords == {<<0, 0>>, <<1, 0>>, <<1, 1>>}
NearPoint(c, t) ==
    [lat |-> c[1], lon |-> c[2], latExp |-> -27, lonExp |-> -81,
     elevation |-> undefined, time |-> <<t>>]
NearPoints == {NearPoint(c, 0) : c \in NearCoords} \cup {NearPoint(<<0, 0>>, 1000)}
NearTracks == TracksOf(NearPoints, MaxFocusLen)

-----------------------------------------------------------------------------
(* Arithmetic helpers                                                      *)

Abs(x) == IF x < 0 THEN -x ELSE x
MathMin(x, y) == IF x < y THEN x ELSE y
MathMax(x, y) == IF x > y THEN x ELSE y

RECURSIVE GCD(_, _)
GCD(a, b) == IF b = 0 THEN a ELSE GCD(b, a % b)

\* n / d for a number n >= 0 and d > 0, as a fraction in lowest terms
Div(n, d) == LET g == GCD(n, d) IN [num |-> n \div g, den |-> d \div g]
Num(n) == [num |-> n, den |-> 1]

\* floor(x * n / d) for x, n >= 0 and d > 0, computed bit by bit of n so that
\* no intermediate value leaves 32 bits: acc = <<q, r>> stands for q * d + r.
RECURSIVE MulDivAcc(_, _, _, _, _)
MulDivAcc(x, n, d, bit, acc) ==
    IF bit = 0 THEN acc[1]
    ELSE LET b == (n \div bit) % 2
             t == 2 * acc[2] + b * (x % d)
             q == 2 * acc[1] + b * (x \div d) + t \div d
         IN MulDivAcc(x, n, d, bit \div 2, <<q, t % d>>)
MulDiv(x, n, d) == MulDivAcc(x, n, d, 131072, <<0, 0>>)

-----------------------------------------------------------------------------
(* Natural numbers of any size: the digits to the base 2^15, the lowest    *)
(* first, the highest not 0; <<>> is 0                                     *)

\* the number of binary digits of n >= 0
RECURSIVE BitLength(_)
BitLength(n) == IF n = 0 THEN 0 ELSE 1 + BitLength(n \div 2)

BigBase == 2 ^ 15
BigBaseBits == BitLength(BigBase) - 1

BigDigit(a, i) == IF i \in DOMAIN a THEN a[i] ELSE 0

RECURSIVE BigTrim(_)
BigTrim(a) ==
    IF a # <<>> /\ a[Len(a)] = 0 THEN BigTrim(SubSeq(a, 1, Len(a) - 1)) ELSE a

RECURSIVE Nat2Big(_)
Nat2Big(n) == IF n = 0 THEN <<>> ELSE <<n % BigBase>> \o Nat2Big(n \div BigBase)

RECURSIVE BigPlusFrom(_, _, _, _)
BigPlusFrom(a, b, i, carry) ==
    IF i > MathMax(Len(a), Len(b))
    THEN IF carry = 0 THEN <<>> ELSE <<carry>>
    ELSE LET t == BigDigit(a, i) + BigDigit(b, i) + carry
         IN <<t % BigBase>> \o BigPlusFrom(a, b, i + 1, t \div BigBase)
BigPlus(a, b) == BigPlusFrom(a, b, 1, 0)

\* a - b for a >= b
RECURSIVE BigMinusFrom(_, _, _, _)
BigMinusFrom(a, b, i, borrow) ==
    IF i > Len(a) THEN <<>>
    ELSE LET t == a[i] - BigDigit(b, i) - borrow
         IN <<(t + BigBase) % BigBase>>
                \o BigMinusFrom(a, b, i + 1, IF t < 0 THEN 1 ELSE 0)
BigMinus(a, b) == BigTrim(BigMinusFrom(a, b, 1, 0))

\* -1, 0 or 1 as a < b, a = b or a > b
RECURSIVE BigCompareFrom(_, _, _)
BigCompareFrom(a, b, i) ==
    IF i = 0 THEN 0
    ELSE IF a[i] < b[i] THEN -1
    ELSE IF a[i] > b[i] THEN 1
    ELSE BigCompareFrom(a, b, i - 1)
BigCompare(a, b) ==
    IF Len(a) < Len(b) THEN -1
    ELSE IF Len(a) > Len(b) THEN 1
    ELSE BigCompareFrom(a, b, Len(a))

\* a * k for a digit k
RECURSIVE BigTimesDigitFrom(_, _, _, _)
BigTimesDigitFrom(a, k, i, carry) ==
    IF i > Len(a)
    THEN IF carry = 0 THEN <<>> ELSE <<carry>>
    ELSE LET t == a[i] * k + carry
         IN <<t % BigBase>> \o BigTimesDigitFrom(a, k, i + 1, t \div BigBase)
BigTimesDigit(a, k) == BigTrim(BigTimesDigitFrom(a, k, 1, 0))

\* a * BigBase^n
BigShiftDigits(a, n) == IF a = <<>> THEN <<>> ELSE [i \in 1..n |-> 0] \o a

RECURSIVE BigTimes(_, _)
BigTimes(a, b) ==
    IF b = <<>> THEN <<>>
    ELSE BigPlus(BigTimesDigit(a, b[1]), BigShiftDigits(BigTimes(a, Tail(b)), 1))

\* the quotient q and the remainder r of a by a digit k > 0, from digit i
\* down, r what the higher digits have left
RECURSIVE BigOverDigitFrom(_, _, _, _)
BigOverDigitWith(t, k, rest) == [q |-> Append(rest.q, t \div k), r |-> rest.r]
BigOverDigitAt(a, k, i, t) == BigOverDigitWith(t, k, BigOverDigitFrom(a, k, i - 1, t % k))
BigOverDigitFrom(a, k, i, r) ==
    IF i = 0 THEN [q |-> <<>>, r |-> r] ELSE BigOverDigitAt(a, k, i, r * BigBase + a[i])
BigOverDigitTrimmed(d) == [q |-> BigTrim(d.q), r |-> d.r]
BigOverDigit(a, k) == BigOverDigitTrimmed(BigOverDigitFrom(a, k, Len(a), 0))

\* a * 2^n and the whole part of a / 2^n
BigShiftLeft(a, n) ==
    BigShiftDigits(BigTimesDigit(a, 2 ^ (n % BigBaseBits)), n \div BigBaseBits)
BigShiftRight(a, n) ==
    BigOverDigit(SubSeq(a, n \div BigBaseBits + 1, Len(a)), 2 ^ (n % BigBaseBits)).q

\* the number of binary digits
BigBitLength(a) ==
    IF a = <<>> THEN 0 ELSE BigBaseBits * (Len(a) - 1) + BitLength(a[Len(a)])

BigOdd(a) == a # <<>> /\ a[1] % 2 = 1

\* the whole part of the square root of a, a hexadecimal digit at a time
\* from digit n down: r is the root so far, d the next digit, the greatest
\* that keeps the square within a
BigSqrtWith(r, d, n) == BigPlus(r, BigShiftLeft(Nat2Big(d), 4 * n))
BigSqrtWithin(a, t) == BigCompare(BigTimes(t, t), a) <= 0
BigSqrtDigit(a, r, n) ==
    CHOOSE d \in 0..15 :
        /\ BigSqrtWithin(a, BigSqrtWith(r, d, n))
        /\ d < 15 => ~BigSqrtWithin(a, BigSqrtWith(r, d + 1, n))
RECURSIVE BigSqrtFrom(_, _, _)
BigSqrtFrom(a, r, n) ==
    IF n < 0 \/ BigTimes(r, r) = a THEN r
    ELSE BigSqrtFrom(a, BigSqrtWith(r, BigSqrtDigit(a, r, n), n), n - 1)
BigSqrt(a) == BigSqrtFrom(a, <<>>, BigBitLength(a) \div 8)

-----------------------------------------------------------------------------
(* IEEE-754 doubles: [neg, m, e] is (neg ? -1 : 1) * m * 2^e with          *)
(* 2^52 <= m < 2^53, or 0.  The numbers of the model stay far from the     *)
(* subnormal and the infinite ones.                                        *)

Precision == 53

DoubleZero == [neg |-> FALSE, m |-> <<>>, e |-> 0]

\* m * 2^e for m of 53 bits or fewer: -cut zeros are appended to m
DoubleExact(neg, m, e, cut) ==
    [neg |-> neg, m |-> BigShiftLeft(m, -cut), e |-> e + cut]

\* n * 2^e for n of 53 bits or n = 2^53
DoubleCarried(neg, n, e) ==
    IF BigBitLength(n) > Precision
    THEN [neg |-> neg, m |-> BigShiftRight(n, 1), e |-> e + 1]
    ELSE [neg |-> neg, m |-> n, e |-> e]

\* q or q + 1, times 2^e: rest is -1, 0 or 1 as what was cut off q is less
\* than, equal to or more than a half; ties go to the even one
DoubleNearest(neg, q, e, rest, sticky) ==
    DoubleCarried(neg,
                  IF rest > 0 \/ (rest = 0 /\ (sticky \/ BigOdd(q)))
                  THEN BigPlus(q, <<1>>)
                  ELSE q,
                  e)

\* q is the whole part of m / 2^cut
DoubleCut(neg, m, e, sticky, cut, q) ==
    DoubleNearest(neg, q, e + cut,
                  BigCompare(BigMinus(m, BigShiftLeft(q, cut)),
                             BigShiftLeft(<<1>>, cut - 1)),
                  sticky)

\* cut is the number of bits m has beyond 53
DoubleRoundBy(neg, m, e, sticky, cut) ==
    IF cut <= 0
    THEN DoubleExact(neg, m, e, cut)
    ELSE DoubleCut(neg, m, e, sticky, cut, BigShiftRight(m, cut))

\* the double nearest to (m + f) * 2^e, ties to even, where 0 <= f < 1 and
\* sticky tells whether f > 0; when sticky, m has 55 bits or more
DoubleRound(neg, m, e, sticky) ==
    IF m = <<>> THEN DoubleZero
    ELSE DoubleRoundBy(neg, m, e, sticky, BigBitLength(m) - Precision)

\* the double n * 2^e for an integer n of 53 bits or fewer
DoubleOf(n, e) == DoubleRound(n < 0, Nat2Big(Abs(n)), e, FALSE)

\* 1 = 2^52 * 2^-52
DoubleOne == [neg |-> FALSE, m |-> <<0, 0, 0, 128>>, e |-> -52]

\* x * y
DoubleTimes(x, y) ==
    IF x.m = <<>> \/ y.m = <<>> THEN DoubleZero
    ELSE DoubleRound(x.neg # y.neg, BigTimes(x.m, y.m), x.e + y.e, FALSE)

\* x / k for a whole number 0 < k < 2^15: the quotient of m * 2^17 by k has
\* 55 bits or more
DoubleQuotient(neg, d, e) == DoubleRound(neg, d.q, e, d.r # 0)
DoubleOver(x, k) ==
    IF x.m = <<>> THEN DoubleZero
    ELSE DoubleQuotient(x.neg, BigOverDigit(BigShiftLeft(x.m, 17), k), x.e - 17)

\* m as a multiple of 2^e, for x = m * 2^x.e and e <= x.e
DoubleAligned(x, e) == BigShiftLeft(x.m, x.e - e)

\* x + y for x, y >= 0
DoublePlusAt(x, y, e) ==
    DoubleRound(FALSE, BigPlus(DoubleAligned(x, e), DoubleAligned(y, e)), e, FALSE)
DoublePlus(x, y) ==
    IF x.m = <<>> THEN y
    ELSE IF y.m = <<>> THEN x
    ELSE DoublePlusAt(x, y, MathMin(x.e, y.e))

\* x - y for x >= y >= 0
DoubleMinusAt(x, y, e) ==
    DoubleRound(FALSE, BigMinus(DoubleAligned(x, e), DoubleAligned(y, e)), e, FALSE)
DoubleMinus(x, y) ==
    IF y.m = <<>> THEN x ELSE DoubleMinusAt(x, y, MathMin(x.e, y.e))

\* Math.sqrt(x) for x >= 0, correctly rounded: the root r of a = m * 2^s, a
\* number of 111 or 112 bits with e - s even
MathSqrtRounded(a, r, e) == DoubleRound(FALSE, r, e, BigTimes(r, r) # a)
MathSqrtOf(a, e) == MathSqrtRounded(a, BigSqrt(a), e)
MathSqrtBy(x, s) == MathSqrtOf(BigShiftLeft(x.m, s), (x.e - s) \div 2)
MathSqrt(x) ==
    IF x.m = <<>> THEN DoubleZero ELSE MathSqrtBy(x, 58 + ((x.e + 2048) % 2))

\* Math.PI = 0x1.921fb54442d18p+1
MathPI == [neg |-> FALSE, m |-> <<11544, 10376, 2029, 201>>, e |-> -51]

\* |x| < 2^-k
Below(x, k) == x.m = <<>> \/ x.e + Precision <= -k

\* Math.sin(x) = x and Math.cos(x) = 1 for |x| < 2^-27, and
\* Math.atan2(y, 1) = y for |y| < 2^-29: the next double is further from
\* the exact value than these.  Other arguments do not occur.
MathSinTiny(x) == CASE Below(x, 27) -> x
MathCosTiny(x) == CASE Below(x, 27) -> DoubleOne
MathAtan2Tiny(y, x) == CASE x = DoubleOne /\ Below(y, 29) -> y

-----------------------------------------------------------------------------
(* calculateDistance: the Haversine formula                                *)

\* Math.PI as the fraction 103993 / 33102 (error below 2 * 10^-10)
PiNum == 103993
PiDen == 33102

\* Math.cos of an angle in degrees, a multiple of 90
MathCos(deg) ==
    LET m == deg % 360
    IN CASE m = 0 -> 1 [] m = 90 -> 0 [] m = 180 -> -1 [] m = 270 -> 0

\* the bug: the half angle forgotten, 2 * Math.sin(x) * Math.sin(x) = 1 - cos 2x
TwoSinSqWhole(deg) == 1 - MathCos(2 * deg)

\* 2 * Math.sin(x / 2) * Math.sin(x / 2) = 1 - cos x, x in degrees
TwoSinSqHalf(deg) == 1 - MathCos(deg)

\* the bug: the arguments of atan2 exchanged, atan2(sqrt(1 - a), sqrt(a))
TwoAtan2Swapped(a2) == CASE a2 = 0 -> 180 [] a2 = 1 -> 90 [] a2 = 2 -> 0

\* 2 * Math.atan2(Math.sqrt(a), Math.sqrt(1 - a)) = arccos(1 - 2a), in degrees,
\* given 2a
TwoAtan2(a2) == CASE a2 = 0 -> 0 [] a2 = 1 -> 90 [] a2 = 2 -> 180

\* Earth's radius in metres
R == 6371000

\* R * c for the angles c (in degrees) that TwoAtan2 returns: R * c * pi / 180
RTimes == [c \in {0, 90, 180} |-> MulDiv(R * c, PiNum, 180 * PiDen)]

\* the point is one near the origin
Near(p) == "latExp" \in DOMAIN p

\* x * Math.PI / 180 for x = n * 2^e degrees
Radians(n, e) == DoubleOver(DoubleTimes(DoubleOf(n, e), MathPI), 180)

\* file.ts 89-91: a, given Math.sin(dphi / 2), Math.cos(phi1), Math.cos(phi2)
\* and Math.sin(dlam / 2)
NearA(sinDphi, cosPhi1, cosPhi2, sinDlam) ==
    DoublePlus(DoubleTimes(sinDphi, sinDphi),
               DoubleTimes(DoubleTimes(DoubleTimes(cosPhi1, cosPhi2), sinDlam), sinDlam))

\* file.ts 84-91: a in doubles, for two points near the origin.  The
\* differences of the coordinates are exact.
NearHaversine(p1, p2) ==
    NearA(MathSinTiny(DoubleOver(Radians(p2.lat - p1.lat, p1.latExp), 2)),
          MathCosTiny(Radians(p1.lat, p1.latExp)),
          MathCosTiny(Radians(p2.lat, p2.latExp)),
          MathSinTiny(DoubleOver(Radians(p2.lon - p1.lon, p1.lonExp), 2)))

\* file.ts 92: c, given a
NearC(a) ==
    DoubleTimes(DoubleOf(2, 0),
                MathAtan2Tiny(MathSqrt(a), MathSqrt(DoubleMinus(DoubleOne, a))))

\* file.ts 94: R * c, given a
NearDistance(a) == DoubleTimes(DoubleOf(R, 0), NearC(a))

\* a, then the distance, of every two points of the model, computed once
NearHaversines ==
    {[from |-> c1, to |-> c2,
      a |-> NearHaversine(NearPoint(c1, 0), NearPoint(c2, 0))] :
        c1 \in NearCoords, c2 \in NearCoords}
NearDistances ==
    {[from |-> t.from, to |-> t.to, d |-> NearDistance(t.a)] : t \in NearHaversines}

NearDistanceOf(p1, p2) ==
    (CHOOSE t \in NearDistances :
        t.from = <<p1.lat, p1.lon>> /\ t.to = <<p2.lat, p2.lon>>).d

\* the bug: cos(phi1) twice, cos(phi2) forgotten
calculateDistanceCosTwice(p1, p2) ==
    IF Near(p1) THEN NearDistanceOf(p1, p2)
    ELSE
    LET dphi == p2.lat - p1.lat
        dlam == p2.lon - p1.lon
        a2 == TwoSinSqHalf(dphi)
                + MathCos(p1.lat) * MathCos(p1.lat) * TwoSinSqHalf(dlam)
        c == TwoAtan2(a2)
    IN RTimes[c]

\* file.ts 82-95: near the origin in doubles, on the grid in whole metres
calculateDistance(p1, p2) ==
    IF Near(p1) THEN NearDistanceOf(p1, p2)
    ELSE
    LET dphi == p2.lat - p1.lat
        dlam == p2.lon - p1.lon
        a2 == TwoSinSqHalf(dphi)
                + MathCos(p1.lat) * MathCos(p2.lat) * TwoSinSqHalf(dlam)
        c == TwoAtan2(a2)
    IN RTimes[c]

-----------------------------------------------------------------------------
(* calculateStats                                                          *)

\* the bug: totalDistance kept from the call before (an accumulator declared
\* outside the function)
InitLocalsStale ==
    [totalDistance |-> locals.totalDistance,
     totalElevationGain |-> 0,
     totalElevationLoss |-> 0,
     minElevation |-> Infinity,
     maxElevation |-> -Infinity,
     startTime |-> null,
     endTime |-> null]

\* stats.ts 12-18: the locals as declared
InitLocals ==
    [totalDistance |-> 0,
     totalElevationGain |-> 0,
     totalElevationLoss |-> 0,
     minElevation |-> Infinity,
     maxElevation |-> -Infinity,
     startTime |-> null,
     endTime |-> null]

\* x || 0 for an optional number x
OrZero(x) == IF x = undefined \/ x[1] = 0 THEN 0 ELSE x[1]

\* the bug: no test that the previous point has an elevation, so that a
\* missing one counts as 0
ElevationStatsNoPrevCheck(st, pts, k) ==
    LET point == pts[k] IN
    IF point.elevation # undefined
    THEN LET st1 == [st EXCEPT
                 !.minElevation = MathMin(st.minElevation, point.elevation[1]),
                 !.maxElevation = MathMax(st.maxElevation, point.elevation[1])]
         IN IF k > 1
            THEN LET elevDiff == point.elevation[1] - OrZero(pts[k - 1].elevation)
                 IN IF elevDiff > 0
                    THEN [st1 EXCEPT !.totalElevationGain = @ + elevDiff]
                    ELSE [st1 EXCEPT !.totalElevationLoss = @ + Abs(elevDiff)]
            ELSE st1
    ELSE st

\* the bug: if (point.elevation), which skips an elevation of 0
ElevationStatsTruthy(st, pts, k) ==
    LET point == pts[k] IN
    IF point.elevation # undefined /\ point.elevation[1] # 0
    THEN LET st1 == [st EXCEPT
                 !.minElevation = MathMin(st.minElevation, point.elevation[1]),
                 !.maxElevation = MathMax(st.maxElevation, point.elevation[1])]
         IN IF k > 1 /\ pts[k - 1].elevation # undefined
            THEN LET elevDiff == point.elevation[1] - OrZero(pts[k - 1].elevation)
                 IN IF elevDiff > 0
                    THEN [st1 EXCEPT !.totalElevationGain = @ + elevDiff]
                    ELSE [st1 EXCEPT !.totalElevationLoss = @ + Abs(elevDiff)]
            ELSE st1
    ELSE st

\* stats.ts 24-36, for point = pts[k] (k counts from 1, i = k - 1)
ElevationStats(st, pts, k) ==
    LET point == pts[k] IN
    IF point.elevation # undefined
    THEN LET st1 == [st EXCEPT
                 !.minElevation = MathMin(st.minElevation, point.elevation[1]),
                 !.maxElevation = MathMax(st.maxElevation, point.elevation[1])]
         IN IF k > 1 /\ pts[k - 1].elevation # undefined
            THEN LET elevDiff == point.elevation[1] - OrZero(pts[k - 1].elevation)
                 IN IF elevDiff > 0
                    THEN [st1 EXCEPT !.totalElevationGain = @ + elevDiff]
                    ELSE [st1 EXCEPT !.totalElevationLoss = @ + Abs(elevDiff)]
            ELSE st1
    ELSE st

\* the bug: the earliest and the latest timestamp instead of the first and
\* the last in sequence
TimeStatsChronological(st, pts, k) ==
    LET point == pts[k] IN
    IF point.time # undefined
    THEN [st EXCEPT
            !.startTime = IF st.startTime = null \/ point.time[1] < st.startTime[1]
                          THEN point.time ELSE @,
            !.endTime = IF st.endTime = null \/ point.time[1] > st.endTime[1]
                        THEN point.time ELSE @]
    ELSE st

\* the bug: else before endTime = point.time, so that the first timestamped
\* point sets startTime only
TimeStatsElse(st, pts, k) ==
    LET point == pts[k] IN
    IF point.time # undefined
    THEN IF st.startTime = null
         THEN [st EXCEPT !.startTime = point.time]
         ELSE [st EXCEPT !.endTime = point.time]
    ELSE st

\* stats.ts 39-42: a Date object is truthy whatever its value
TimeStats(st, pts, k) ==
    LET point == pts[k] IN
    IF point.time # undefined
    THEN [st EXCEPT !.startTime = IF st.startTime = null THEN point.time ELSE @,
                    !.endTime = point.time]
    ELSE st

\* the bug: the distance from the first point instead of the previous one
DistanceStatsFromFirst(st, pts, k) ==
    IF k > 1
    THEN LET prevPoint == pts[1]
         IN [st EXCEPT !.totalDistance = @ + calculateDistance(prevPoint, pts[k])]
    ELSE st

\* stats.ts 45-48.  The += adds two doubles.  The whole metres of the grid
\* add exactly, every sum staying below 2^31.  Near the origin the sum is
\* rounded, and the total is the 0 of stats.ts 12 until the first distance
\* is added, at k = 2.
DistanceStats(st, pts, k) ==
    IF k > 1
    THEN LET prevPoint == pts[k - 1]
             distance == calculateDistance(prevPoint, pts[k])
         IN [st EXCEPT !.totalDistance =
                 IF Near(pts[k])
                 THEN DoublePlus(IF k = 2 THEN DoubleZero ELSE @, distance)
                 ELSE @ + distance]
    ELSE st

\* stats.ts 20-49: one iteration, then the whole loop from iteration k on
LoopBody(st, pts, k) ==
    DistanceStats(TimeStats(ElevationStats(st, pts, k), pts, k), pts, k)

RECURSIVE Loop(_, _, _)
Loop(st, pts, k) ==
    IF k > Len(pts) THEN st ELSE Loop(LoopBody(st, pts, k), pts, k + 1)

\* stats.ts 51
Duration(st) ==
    IF st.startTime # null /\ st.endTime # null
    THEN <<st.endTime[1] - st.startTime[1]>>
    ELSE null

\* the bug: the number of segments for the number of points
TraceStatsSegmentCount(st, pts) ==
    [totalDistance |-> Div(st.totalDistance, 1000),
     totalElevationGain |-> st.totalElevationGain,
     totalElevationLoss |-> st.totalElevationLoss,
     minElevation |-> IF st.minElevation = Infinity THEN null ELSE <<st.minElevation>>,
     maxElevation |-> IF st.maxElevation = -Infinity THEN null ELSE <<st.maxElevation>>,
     duration |-> IF st.startTime # null /\ st.endTime # null
                  THEN <<st.endTime[1] - st.startTime[1]>> ELSE null,
     startTime |-> st.startTime,
     endTime |-> st.endTime,
     pointCount |-> Len(pts) - 1]

\* stats.ts 53-63; totalDistance / 1000 is a double near the origin and a
\* fraction on the grid
TraceStats(st, pts) ==
    [totalDistance |-> IF Near(pts[1])
                       THEN DoubleOver(st.totalDistance, 1000)
                       ELSE Div(st.totalDistance, 1000),
     totalElevationGain |-> st.totalElevationGain,
     totalElevationLoss |-> st.totalElevationLoss,
     minElevation |-> IF st.minElevation = Infinity THEN null ELSE <<st.minElevation>>,
     maxElevation |-> IF st.maxElevation = -Infinity THEN null ELSE <<st.maxElevation>>,
     duration |-> Duration(st),
     startTime |-> st.startTime,
     endTime |-> st.endTime,
     pointCount |-> Len(pts)]

\* the bug: points.length < 1
TooShortOffByOne(pts) == Len(pts) < 1

\* stats.ts 10: the early return
TooShort(pts) == Len(pts) < 2

\* the locals when calculateStats(pts) returns
RunLocals(pts) == IF TooShort(pts) THEN locals ELSE Loop(InitLocals, pts, 1)

\* stats.ts 9-64: the value returned, null or <<the TraceStats record>>
calculateStats(pts) ==
    IF TooShort(pts) THEN null ELSE <<TraceStats(RunLocals(pts), pts)>>

-----------------------------------------------------------------------------
(* The callers: calls of calculateStats on a track, repeated, with calls   *)
(* on other tracks in between                                              *)

Reverse(s) == [k \in 1..Len(s) |-> s[Len(s) + 1 - k]]

mkPoint(lat, lon, e, t) == [lat |-> lat, lon |-> lon, elevation |-> e, time |-> t]

OtherTracks ==
    {<<mkPoint(0, 0, <<10>>, <<1000>>), mkPoint(0, 90, <<0>>, <<0>>)>>}

\* before the first call no local has been given a value
NoLocals ==
    [totalDistance |-> 0,
     totalElevationGain |-> 0,
     totalElevationLoss |-> 0,
     minElevation |-> 0,
     maxElevation |-> 0,
     startTime |-> null,
     endTime |-> null]

\* no file is being processed
NoFile ==
    /\ file = <<>>
    /\ settled = <<>>
    /\ effects = <<>>

NoCall ==
    /\ locals = NoLocals
    /\ result = null
    /\ prev = <<>>
    /\ arg2 = <<>>
    /\ res2 = null
    /\ mid = FALSE

InitRest == NoCall /\ NoFile /\ NoPage /\ NoUI /\ NoApi /\ NoMap /\ NoText

Init == points \in Tracks /\ InitRest
InitDist == points \in DistTracks /\ InitRest
InitElev == points \in ElevTracks /\ InitRest
InitTime == points \in TimeTracks /\ InitRest
InitRev == points \in RevTracks \cup NearTracks /\ InitRest

\* the bug: points[i - 1].elevation ||= 0, which writes the default into
\* the previous point
PointsAfterDefaulted(pts) ==
    IF TooShort(pts) THEN pts
    ELSE [k \in 1..Len(pts) |->
            IF k < Len(pts) /\ pts[k].elevation = undefined
            THEN [pts[k] EXCEPT !.elevation = <<0>>] ELSE pts[k]]

\* stats.ts 9-64: the array when calculateStats(pts) returns. No statement
\* assigns to points, to an element of it or to a field of a point.
PointsAfter(pts) == pts

\* traceStats = calculateStats(gpxData.points)
Call ==
    /\ result' = calculateStats(points)
    /\ locals' = RunLocals(points)
    /\ prev' = IF prev = <<>> THEN <<result'>> ELSE prev
    /\ points' = PointsAfter(points)
    /\ UNCHANGED <<arg2, res2, mid, fileVars, pageVars, uiVars, apiVars, mapVars, textVars>>

\* a call on another track: one of OtherTracks, or points reversed
CallOther(t) ==
    /\ arg2' = <<t>>
    /\ res2' = calculateStats(t)
    /\ locals' = RunLocals(t)
    /\ mid' = (mid \/ prev # <<>>)
    /\ UNCHANGED <<points, result, prev, fileVars, pageVars, uiVars, apiVars, mapVars, textVars>>

Next ==
    \/ Call
    \/ \E t \in OtherTracks \cup {Reverse(points)} : CallOther(t)

Spec == Init /\ [][Next]_vars
SpecDist == InitDist /\ [][Next]_vars
SpecElev == InitElev /\ [][Next]_vars
SpecTime == InitTime /\ [][Next]_vars
SpecRev == InitRev /\ [][Next]_vars

-----------------------------------------------------------------------------
(* What the claims speak of                                                *)

\* calculateStats(points) has returned: result is its latest return value
Called == prev # <<>>

RECURSIVE SumSeq(_)
SumSeq(s) == IF s = <<>> THEN 0 ELSE s[1] + SumSeq(Tail(s))

\* calculateDistance(p[i-1], p[i]) for i = 1..N-1
SegmentDistances(pts) ==
    [k \in 1..(Len(pts) - 1) |-> calculateDistance(pts[k], pts[k + 1])]

\* (C1) For a track of N >= 2 points the total distance returned is the sum of
\* calculateDistance over the consecutive pairs, divided by 1000: kilometres.
C1_TotalDistanceInKm ==
    (Called /\ Len(points) >= 2) =>
        /\ result # null
        /\ result[1].totalDistance = Div(SumSeq(SegmentDistances(points)), 1000)

\* (C1, as stated) The total distance returned is that sum itself, in metres:
\* no unit conversion is applied.
C1_TotalDistanceInMeters ==
    (Called /\ Len(points) >= 2) =>
        /\ result # null
        /\ result[1].totalDistance = Num(SumSeq(SegmentDistances(points)))

C1_Witness ==
    /\ Called
    /\ Len(points) = 4
    /\ result # null
    /\ SegmentDistances(points) = <<RTimes[90], RTimes[180], RTimes[90]>>
    /\ result[1].totalDistance = Div(4 * RTimes[90], 1000)

\* (C2) calculateStats returns null for every track of 0 or 1 points and a
\* statistics record for every track of 2 or more points.
C2_NullIffFewerThanTwo ==
    Called => (result = null <=> Len(points) < 2)

C2_Witness ==
    /\ Called
    /\ Len(points) = 1
    /\ result = null

\* the consecutive pairs (k, k + 1) in which both points have an elevation
BothElevation(pts, k) ==
    pts[k].elevation # undefined /\ pts[k + 1].elevation # undefined

ElevationDelta(pts, k) == pts[k + 1].elevation[1] - pts[k].elevation[1]

PositiveDeltas(pts) ==
    [k \in 1..(Len(pts) - 1) |->
        IF BothElevation(pts, k) /\ ElevationDelta(pts, k) > 0
        THEN ElevationDelta(pts, k) ELSE 0]

OtherDeltas(pts) ==
    [k \in 1..(Len(pts) - 1) |->
        IF BothElevation(pts, k) /\ ElevationDelta(pts, k) <= 0
        THEN -ElevationDelta(pts, k) ELSE 0]

ElevationsOf(pts) == [k \in 1..Len(pts) |-> pts[k].elevation]

\* (C3) totalElevationGain is the sum of the strictly positive elevation deltas
\* and totalElevationLoss the sum of the absolute values of the other deltas,
\* over the consecutive pairs in which both points have an elevation.
C3_GainAndLoss ==
    (Called /\ Len(points) >= 2) =>
        /\ result # null
        /\ result[1].totalElevationGain = SumSeq(PositiveDeltas(points))
        /\ result[1].totalElevationLoss = SumSeq(OtherDeltas(points))

C3_Witness ==
    /\ Called
    /\ ElevationsOf(points) = <<<<10>>, <<5>>, <<5>>, <<20>>>>
    /\ result # null
    /\ result[1].totalElevationGain = 15
    /\ result[1].totalElevationLoss = 5

\* the elevations recorded in a track
Recorded(pts) ==
    {pts[k].elevation[1] : k \in {j \in 1..Len(pts) : pts[j].elevation # undefined}}

Least(S) == CHOOSE x \in S : \A y \in S : x <= y
Greatest(S) == CHOOSE x \in S : \A y \in S : x >= y

\* (C4) minElevation and maxElevation are the least and the greatest elevation
\* over all points that have one; both are null exactly when no point has one.
C4_MinMaxElevation ==
    (Called /\ Len(points) >= 2) =>
        /\ result # null
        /\ IF Recorded(points) = {}
           THEN result[1].minElevation = null /\ result[1].maxElevation = null
           ELSE /\ result[1].minElevation = <<Least(Recorded(points))>>
                /\ result[1].maxElevation = <<Greatest(Recorded(points))>>

\* the first point holds the least elevation, which is 0, its neighbour has
\* none, and the elevation of the last point is the greatest
C4_Witness ==
    /\ Called
    /\ ElevationsOf(points) = <<<<0>>, undefined, <<10>>>>
    /\ result # null
    /\ result[1].minElevation = <<0>>
    /\ result[1].maxElevation = <<10>>

\* the positions of the points that carry a timestamp
Timed(pts) == {k \in 1..Len(pts) : pts[k].time # undefined}

TimesOf(pts) == [k \in 1..Len(pts) |-> pts[k].time]

\* (C5) startTime is the timestamp of the first point in sequence order that has
\* one, endTime that of the last, and duration = endTime - startTime: nothing is
\* sorted, so the duration can be negative.
C5_FirstAndLastInSequence ==
    (Called /\ Len(points) >= 2 /\ Timed(points) # {}) =>
        /\ result # null
        /\ result[1].startTime = points[Least(Timed(points))].time
        /\ result[1].endTime = points[Greatest(Timed(points))].time
        /\ result[1].duration =
               <<points[Greatest(Timed(points))].time[1]
                   - points[Least(Timed(points))].time[1]>>

\* timestamps out of chronological order: the duration is negative, and is
\* not the chronological span 5000 - 0
C5_Witness ==
    /\ Called
    /\ TimesOf(points) = <<<<2000>>, <<5000>>, <<0>>, <<1000>>>>
    /\ result # null
    /\ result[1].startTime = <<2000>>
    /\ result[1].endTime = <<1000>>
    /\ result[1].duration = <<-1000>>

\* (C6, as stated) The duration is null whenever fewer than two points carry a
\* timestamp.
C6_NullWithFewerThanTwoTimestamps ==
    (Called /\ Len(points) >= 2 /\ Cardinality(Timed(points)) < 2) =>
        /\ result # null
        /\ result[1].duration = null

\* (C6) The duration is null exactly when no point carries a timestamp; with
\* exactly one timestamped point startTime = endTime and the duration is 0.
C6_NullIffNoTimestamp ==
    (Called /\ Len(points) >= 2) =>
        /\ result # null
        /\ (result[1].duration = null <=> Timed(points) = {})
        /\ Cardinality(Timed(points)) = 1 =>
               /\ result[1].startTime = result[1].endTime
               /\ result[1].duration = <<0>>

C6_Witness ==
    /\ Called
    /\ Len(points) >= 2
    /\ Cardinality(Timed(points)) = 1
    /\ result # null
    /\ result[1].duration = <<0>>

Negated(d) == IF d = null THEN null ELSE <<-d[1]>>

\* (C7) as stated: the statistics of the reversed track have the same total
\* distance, startTime and endTime swapped, the duration negated.
C7_Reversal ==
    (Called /\ Len(points) >= 2 /\ arg2 = <<Reverse(points)>>) =>
        /\ result # null
        /\ res2 # null
        /\ res2[1].totalDistance = result[1].totalDistance
        /\ res2[1].startTime = result[1].endTime
        /\ res2[1].endTime = result[1].startTime
        /\ res2[1].duration = Negated(result[1].duration)

\* the doubles ds added from the first to the last, as stats.ts 47 adds them
RECURSIVE AddedInOrder(_)
AddedInOrder(ds) ==
    IF ds = <<>> THEN DoubleZero
    ELSE DoublePlus(AddedInOrder(SubSeq(ds, 1, Len(ds) - 1)), ds[Len(ds)])

\* the distances ds of the track pts added in their order, in kilometres
KilometresOf(pts, ds) ==
    IF Near(pts[1]) THEN DoubleOver(AddedInOrder(ds), 1000)
    ELSE Div(SumSeq(ds), 1000)

\* (C7) corrected: the segment distances of the reversed track are those
\* of the track in the opposite order, each unchanged; its total distance
\* is their sum added in that order, which is the total of the track when
\* N <= 3; startTime and endTime are swapped, the duration is negated.
C7_ReversalUpToRounding ==
    (Called /\ Len(points) >= 2 /\ arg2 = <<Reverse(points)>>) =>
        /\ result # null
        /\ res2 # null
        /\ SegmentDistances(Reverse(points)) = Reverse(SegmentDistances(points))
        /\ res2[1].totalDistance
               = KilometresOf(points, Reverse(SegmentDistances(points)))
        /\ Len(points) <= 3 => res2[1].totalDistance = result[1].totalDistance
        /\ res2[1].startTime = result[1].endTime
        /\ res2[1].endTime = result[1].startTime
        /\ res2[1].duration = Negated(result[1].duration)

\* four points near the origin: a long segment, then two short ones of
\* less than half a unit in its last place each and more than half
\* together.  Added after the long one they are lost one by one; added
\* first they count.
C7_Witness ==
    /\ Called
    /\ Len(points) = 4
    /\ Near(points[1])
    /\ arg2 = <<Reverse(points)>>
    /\ result # null
    /\ res2 # null
    /\ LET ds == SegmentDistances(points)
       IN /\ ds[2] = ds[3]
          /\ ds[2] # DoubleZero
          /\ result[1].totalDistance = DoubleOver(ds[1], 1000)
    /\ res2[1].totalDistance # result[1].totalDistance
    /\ result[1].duration = <<-1000>>
    /\ res2[1].duration = <<1000>>

\* pts without the points that repeat their predecessor
RECURSIVE Distinct(_)
Distinct(pts) ==
    IF Len(pts) < 2 THEN pts
    ELSE IF pts[1] = pts[2] THEN Distinct(Tail(pts))
         ELSE <<pts[1]>> \o Distinct(Tail(pts))

\* (C8) calculateDistance(p, p) = 0: a track of identical points has total
\* distance 0, and a zero-length segment adds nothing to the total.
C8_ZeroLengthSegments ==
    (Called /\ Len(points) >= 2) =>
        /\ result # null
        /\ \A k \in 1..Len(points) : calculateDistance(points[k], points[k]) = 0
        /\ (\A k \in 1..Len(points) : points[k] = points[1])
               => result[1].totalDistance = Num(0)
        /\ result[1].totalDistance
               = Div(SumSeq(SegmentDistances(Distinct(points))), 1000)

\* a pole: three identical points, and a track that stays on its second point
C8_Witness ==
    /\ Called
    /\ Len(points) = 4
    /\ points[1].lat = 90
    /\ points[2] # points[1] /\ points[3] = points[2] /\ points[4] = points[2]
    /\ result # null
    /\ result[1].totalDistance = Div(RTimes[90], 1000)

\* (C9) For a track of N >= 2 points, pointCount = N.
C9_PointCount ==
    (Called /\ Len(points) >= 2) =>
        /\ result # null
        /\ result[1].pointCount = Len(points)

C9_Witness ==
    /\ Called
    /\ Len(points) = 3
    /\ points[1].elevation = undefined /\ points[1].time = undefined
    /\ points[2].elevation # undefined /\ points[2].time = undefined
    /\ points[3].elevation = undefined /\ points[3].time # undefined
    /\ result # null
    /\ result[1].pointCount = 3

\* (C10) Every call on the same track returns what the first call on it
\* returned, whatever calls were made in between.
C10_Deterministic ==
    Called =>
        /\ result = prev[1]
        /\ arg2 = <<points>> => res2 = result

\* a call on points, then a call on another track, then a call on points
C10_Witness ==
    /\ Called
    /\ mid
    /\ Len(points) >= 2
    /\ arg2 # <<points>>
    /\ Len(arg2[1]) >= 2
    /\ locals = RunLocals(points)
    /\ locals # RunLocals(arg2[1])
    /\ result = prev[1]

\* (C11) calculateStats has no side effect on its input: a call leaves the
\* array with the same points in the same order, each with the same lat,
\* lon, elevation and time, also when it has fewer than 2 points.
C11_InputUntouched == [][points' = points]_vars

C11_Witness ==
    /\ Called
    /\ Len(points) = 3
    /\ points[1].elevation = undefined
    /\ points[2].elevation # undefined
    /\ result # null
    /\ result[1].minElevation = points[2].elevation
    /\ locals = RunLocals(points)

-----------------------------------------------------------------------------
(* parseGPX (src/lib/gpx.ts) and processGPXFile (src/lib/file.ts)          *)
(*                                                                         *)
(* A text is a sequence of strings, to be read concatenated: a number is   *)
(* written one character a string.  An attribute, a child element or a     *)
(* <name> is <<>> when the document has none and <<text>> otherwise.       *)
(* NaN is a value apart from every number of the model.                    *)

NaN == 2 * Infinity

MaxTrk == 2

InfinityWord == <<"I", "n", "f", "i", "n", "i", "t", "y">>

Digits == <<"0", "1", "2", "3", "4", "5", "6", "7", "8", "9">>
IsDigit(ch) == \E v \in 1..10 : Digits[v] = ch
DigitValue(ch) == (CHOOSE v \in 1..10 : Digits[v] = ch) - 1

StartsWith(t, w) == Len(t) >= Len(w) /\ SubSeq(t, 1, Len(w)) = w
EndsWith(t, w) == Len(t) >= Len(w) /\ SubSeq(t, Len(t) - Len(w) + 1, Len(t)) = w

RECURSIVE TrimStart(_)
TrimStart(t) == IF t # <<>> /\ t[1] = " " THEN TrimStart(Tail(t)) ELSE t

\* the value of the longest prefix of digits of t after the digits read so
\* far, <<>> when there is no digit at all
RECURSIVE DecimalPrefix(_, _)
DecimalPrefix(t, acc) ==
    IF t # <<>> /\ IsDigit(t[1])
    THEN DecimalPrefix(Tail(t), <<(IF acc = <<>> THEN 0 ELSE 10 * acc[1]) + DigitValue(t[1])>>)
    ELSE acc

\* parseFloat of a text without "." and without exponent: leading blanks,
\* a sign, then Infinity or the longest prefix of digits; NaN without one
parseFloat(text) ==
    LET t == TrimStart(text)
        signed == t # <<>> /\ t[1] \in {"-", "+"}
        neg == t # <<>> /\ t[1] = "-"
        u == IF signed THEN Tail(t) ELSE t
        v == DecimalPrefix(u, <<>>)
    IN IF StartsWith(u, InfinityWord) THEN (IF neg THEN -Infinity ELSE Infinity)
       ELSE IF v = <<>> THEN NaN
       ELSE IF neg THEN -v[1] ELSE v[1]

isNaN(x) == x = NaN
isFinite(x) == x \notin {NaN, Infinity, -Infinity}

\* x || '' for an attribute or a textContent
OrEmpty(x) == IF x = null \/ x[1] = <<>> THEN <<>> ELSE x[1]

\* new Date(text).getTime() for the time stamps of the model
Epoch0 == <<"1970-01-01T00:00:00Z">>
Epoch1 == <<"1970-01-01T00:00:01Z">>
NewDate(text) ==
    CASE text = Epoch0 -> 0
      [] text = Epoch1 -> 1000
      [] OTHER -> NaN

\* gpx.ts 34: the test a trkpt has to pass
Keeps(lat, lon) == ~isNaN(lat) /\ ~isNaN(lon)

\* gpx.ts 30-50: the points that one trkpt adds to trackPoints
TrackPointsOf(pt) ==
    LET lat == parseFloat(OrEmpty(pt.lat))
        lon == parseFloat(OrEmpty(pt.lon))
    IN IF Keeps(lat, lon)
       THEN <<[lat |-> lat,
               lon |-> lon,
               elevation |-> IF pt.ele # <<>>
                             THEN <<parseFloat(OrEmpty(pt.ele))>> ELSE undefined,
               time |-> IF pt.time # <<>>
                        THEN <<NewDate(OrEmpty(pt.time))>> ELSE undefined]>>
       ELSE <<>>

\* gpx.ts 26-51: the loop over the trkpt elements, in document order
RECURSIVE TrackPoints(_)
TrackPoints(trkpts) ==
    IF trkpts = <<>> THEN <<>>
    ELSE TrackPointsOf(trkpts[1]) \o TrackPoints(Tail(trkpts))

\* gpx.ts 54
TrackName(name) ==
    IF name = <<>> \/ name[1] = <<>> THEN <<"Unnamed Track">> ELSE name[1]

Fulfilled(v) == [state |-> "fulfilled", value |-> <<v>>, message |-> <<>>]
Rejected(m) == [state |-> "rejected", value |-> <<>>, message |-> m]

\* gpx.ts 8-66: <<>> when the promise never settles (the FileReader fails and
\* no onerror is installed), else <<the outcome>>
parseGPX(f) ==
    CASE f.content.kind = "unreadable" -> <<>>
      [] f.content.kind = "empty" -> <<Rejected(<<"Failed to read file">>)>>
      [] f.content.kind = "malformed" -> <<Rejected(<<"Invalid GPX file format">>)>>
      [] OTHER -> <<Fulfilled([name |-> TrackName(f.content.name),
                               points |-> TrackPoints(f.content.trkpts)])>>

\* what parseGPX does with the file before it settles
parseEffects(f) ==
    CASE f.content.kind \in {"unreadable", "empty"} -> <<"read">>
      [] OTHER -> <<"read", "parse">>

\* the files of the model: a name and what reading the file gives
Text(S) == {<<>>} \cup {<<t>> : t \in S}
Trkpts(Lats, Lons, Eles, Stamps) ==
    [lat : Lats, lon : Lons, ele : Eles, time : Stamps]
DocsOf(P, n) == UNION {[1..k -> P] : k \in 0..n}
Contents(P, n, Names) ==
    {[kind |-> k, trkpts |-> <<>>, name |-> <<>>] : k \in {"unreadable", "empty", "malformed"}}
        \cup [kind : {"xml"}, trkpts : DocsOf(P, n), name : Names]
Files(FileNames, C) == [name : FileNames, content : C]

GpxName == <<"a", ".", "g", "p", "x">>
LatTexts == {<<"x">>, <<"9", "0">>, <<"-", "9">>, InfinityWord}
LonTexts == {<<"0">>, <<"-">> \o InfinityWord}
ParseFiles ==
    Files({GpxName},
          Contents(Trkpts(Text(LatTexts), Text(LonTexts), Text({<<"1", "0">>}), {<<>>}),
                   MaxTrk,
                   {<<>>, <<<<"Run">>>>}))

InitParse ==
    /\ points = <<>>
    /\ NoCall /\ NoPage /\ NoUI /\ NoApi /\ NoMap /\ NoText
    /\ file \in {<<f>> : f \in ParseFiles}
    /\ settled = <<>>
    /\ effects = <<>>

\* gpx.ts 9-10 and 64: a call of parseGPX(file) hands the file to a
\* FileReader and returns the pending promise
ParseGPX ==
    /\ file # <<>>
    /\ effects = <<>>
    /\ effects' = <<"read">>
    /\ UNCHANGED <<file, settled, statsVars, pageVars, uiVars, apiVars, mapVars, textVars>>

\* the file has been read, by a reader that does not fail
Read == effects = <<"read">> /\ settled = <<>> /\ file[1].content.kind # "unreadable"

\* gpx.ts 11-63: reader.onload, a later task, parses the text and settles
\* the promise
ReaderOnload ==
    /\ Read
    /\ settled' = parseGPX(file[1])
    /\ effects' = parseEffects(file[1])
    /\ UNCHANGED <<file, statsVars, pageVars, uiVars, apiVars, mapVars, textVars>>

NextParse ==
    \/ ParseGPX
    \/ ReaderOnload

SpecParse == InitParse /\ [][NextParse]_vars

\* the points of the settled promise, <<>> when it did not fulfil
Parsed == settled # <<>> /\ settled[1].state = "fulfilled"
ParsedPoints == settled[1].value[1].points

\* what the claim takes a valid trkpt to be, and the position it gives
ParsesFinite(a) == a # <<>> /\ isFinite(parseFloat(a[1]))
ValidTrkpt(pt) == ParsesFinite(pt.lat) /\ ParsesFinite(pt.lon)
Position(pt) == <<parseFloat(pt.lat[1]), parseFloat(pt.lon[1])>>
RECURSIVE ValidPositions(_)
ValidPositions(trkpts) ==
    IF trkpts = <<>> THEN <<>>
    ELSE (IF ValidTrkpt(trkpts[1]) THEN <<Position(trkpts[1])>> ELSE <<>>)
             \o ValidPositions(Tail(trkpts))

\* C12: every point of the track that parseGPX produces has a finite latitude
\* and a finite longitude; the track is, in document order, the trkpt
\* elements whose lat and lon both parse as finite numbers, the others
\* being discarded.
C12_FinitePointsInDocumentOrder ==
    Parsed =>
        /\ \A i \in 1..Len(ParsedPoints) :
               isFinite(ParsedPoints[i].lat) /\ isFinite(ParsedPoints[i].lon)
        /\ [i \in 1..Len(ParsedPoints) |-> <<ParsedPoints[i].lat, ParsedPoints[i].lon>>]
               = ValidPositions(file[1].content.trkpts)

\* a document with an invalid trkpt between two valid ones has been parsed
C12_Witness ==
    /\ Parsed
    /\ Len(file[1].content.trkpts) = 2
    /\ ~ValidTrkpt(file[1].content.trkpts[1])
    /\ ValidTrkpt(file[1].content.trkpts[2])
    /\ Len(ParsedPoints) = 1

-----------------------------------------------------------------------------
(* processGPXFile (src/lib/file.ts 26-48)                                  *)

Upper == <<"A", "G", "P", "X", "T">>
Lower == <<"a", "g", "p", "x", "t">>
toLowerCaseChar(ch) ==
    IF \E i \in DOMAIN Upper : Upper[i] = ch
    THEN Lower[CHOOSE i \in DOMAIN Upper : Upper[i] = ch]
    ELSE ch
toLowerCase(t) == [i \in DOMAIN t |-> toLowerCaseChar(t[i])]

DotGpx == <<".", "g", "p", "x">>

isGPXFileCaseSensitive(f) == EndsWith(f.name, DotGpx)

\* file.ts 17-19
isGPXFile(f) == EndsWith(toLowerCase(f.name), DotGpx)

InvalidFileType == <<"Invalid file type. Please select a GPX file">>
ErrorProcessing == <<"Error processing GPX file: ">>

\* file.ts 26-48: the outcome of the promise, <<>> while it stays pending
processGPXFile(f) ==
    IF ~isGPXFile(f) THEN <<Rejected(InvalidFileType)>>
    ELSE LET parsed == parseGPX(f)
         IN IF parsed = <<>> THEN <<>>
            ELSE IF parsed[1].state = "rejected"
            THEN <<Rejected(ErrorProcessing \o parsed[1].message)>>
            ELSE <<Fulfilled([file |-> f,
                              gpxData |-> parsed[1].value[1],
                              stats |-> calculateStats(parsed[1].value[1].points)])>>

\* what processGPXFile does with the file before it settles
processEffects(f) ==
    IF ~isGPXFile(f) THEN <<>>
    ELSE LET parsed == parseGPX(f)
         IN parseEffects(f)
                \o (IF parsed # <<>> /\ parsed[1].state = "fulfilled"
                    THEN <<"stats">> ELSE <<>>)

FileNames ==
    {GpxName,
     <<"a", ".", "G", "P", "X">>,
     <<"a", ".", "G", "p", "x">>,
     <<"a", ".", "g", "p", "x", ".", "t", "x", "t">>,
     <<"g", "p", "x">>,
     <<"a", ".", "g", "p">>}
UploadFiles ==
    Files(FileNames,
          Contents(Trkpts(Text({<<"0">>, <<"x">>}), {<<<<"0">>>>, <<<<"9", "0">>>>},
                          Text({<<"1", "0">>}), Text({Epoch1})),
                   MaxTrk, {<<>>}))

InitFile ==
    /\ points = <<>>
    /\ NoCall /\ NoPage /\ NoUI /\ NoApi /\ NoMap /\ NoText
    /\ file \in {<<f>> : f \in UploadFiles}
    /\ settled = <<>>
    /\ effects = <<>>

\* file.ts 26-33: a call of processGPXFile(file) rejects a file that is not
\* named as a GPX file, and otherwise awaits parseGPX(file), which has
\* handed the file to its reader
ProcessGPXFile ==
    /\ file # <<>>
    /\ effects = <<>>
    /\ settled = <<>>
    /\ IF isGPXFile(file[1])
       THEN effects' = <<"read">> /\ UNCHANGED settled
       ELSE settled' = processGPXFile(file[1]) /\ effects' = processEffects(file[1])
    /\ UNCHANGED <<file, statsVars, pageVars, uiVars, apiVars, mapVars, textVars>>

\* file.ts 33-47 after reader.onload of parseGPX: the promise of parseGPX
\* has settled, and processGPXFile goes on to the statistics or to its catch
ParsedOrFailed ==
    /\ Read
    /\ settled' = processGPXFile(file[1])
    /\ effects' = processEffects(file[1])
    /\ UNCHANGED <<file, statsVars, pageVars, uiVars, apiVars, mapVars, textVars>>

NextFile ==
    \/ ProcessGPXFile
    \/ ParsedOrFailed

SpecFile == InitFile /\ [][NextFile]_vars

\* what the claim takes a GPX name to be: the last four characters are
\* ".gpx" in any mix of cases
NamedGpx(name) ==
    /\ Len(name) >= 4
    /\ name[Len(name) - 3] = "."
    /\ name[Len(name) - 2] \in {"g", "G"}
    /\ name[Len(name) - 1] \in {"p", "P"}
    /\ name[Len(name)] \in {"x", "X"}

\* C15: processGPXFile rejects a file whose name does not end in ".gpx",
\* whatever the case, with "Invalid file type. Please select a GPX file"
\* and without having read or parsed it or computed statistics; for any
\* other file it returns a result whose stats are calculateStats of the
\* parsed points, or throws an Error whose message starts with
\* "Error processing GPX file: ".
C15_RejectsByNameElseStatsOrError ==
    /\ effects # <<>> => NamedGpx(file[1].name)
    /\ settled # <<>> =>
           IF ~NamedGpx(file[1].name)
           THEN settled[1] = Rejected(InvalidFileType) /\ effects = <<>>
           ELSE \/ /\ settled[1].state = "fulfilled"
                   /\ settled[1].value[1].stats
                          = calculateStats(settled[1].value[1].gpxData.points)
                \/ /\ settled[1].state = "rejected"
                   /\ settled[1].message[1] = "Error processing GPX file: "

\* a file named in upper case has been processed into statistics
C15_Witness ==
    /\ file # <<>>
    /\ file[1].name = <<"a", ".", "G", "P", "X">>
    /\ settled # <<>>
    /\ settled[1].state = "fulfilled"
    /\ settled[1].value[1].stats # null
    /\ effects = <<"read", "parse", "stats">>

-----------------------------------------------------------------------------
(* The interpolation pages: routes/interpolate/+page.svelte ("standalone") *)
(* and routes/gpx/interpolate/+page.svelte under routes/gpx/+layout.svelte *)
(* ("gpx").  A trace stands for the GPXData object of one uploaded file, a *)
(* point for one GPXPoint object of it.  The child page of the layout      *)
(* exists while the layout renders it; the variables of the page are those *)
(* of the page shown, and have their initial values while there is none.   *)

MaxUploads == 2
MaxPolylines == 3

Pages == {"standalone", "gpx"}
Traces == {"A", "S"}

\* gpxData.points.length: the trace A has two track points, the trace S a
\* single one
PointCount(trace) == IF trace = "S" THEN 1 ELSE 2

\* the points whose circle marker gets clicked: the first point of each
\* trace
TracePoints == [trace : Traces, index : {1}]
Services == {"osrm", "ors"}

\* an upload in flight: the trace processGPXFile will resolve with, or a
\* file it will reject
Chosen == [trace : Traces, ok : {TRUE}] \cup {[trace |-> "A", ok |-> FALSE]}

\* stats.ts 10 through file.ts 36: traceStats = result.stats of the trace in
\* gpxData, null for a trace of fewer than two points.  The pages assign
\* traceStats together with gpxData (interpolate/+page.svelte 77-78,
\* gpx/+layout.svelte 85-86) and nowhere else.
StatsOfTrace(data) ==
    IF data = null \/ PointCount(data[1]) < 2 THEN null ELSE <<"stats">>

\* gpx/+layout.svelte 139-143: the layout renders the child page inside
\* {#if gpxData && traceStats}.  The standalone page is always there.
Rendered(data) ==
    page = "standalone" \/ (data # null /\ StatsOfTrace(data) # null)

\* the assignment of data to gpxData and of its stats to traceStats takes
\* the child page away
Destroys(data) == page = "gpx" /\ Rendered(gpxData) /\ ~Rendered(data)

InitUI ==
    /\ points = <<>>
    /\ NoCall /\ NoFile /\ NoPage /\ NoApi /\ NoMap /\ NoText
    /\ page \in Pages
    /\ map = FALSE
    /\ gpxData = null
    /\ markers = {}
    /\ selectedPoints = <<>>
    /\ routeResult = null
    /\ isInterpolating = FALSE
    /\ interpolationError = null
    /\ routingService = "osrm"
    /\ uploads = {}
    /\ routing = <<>>
    /\ abandoned = <<>>
    /\ layers = {}
    /\ gpxLayer = <<>>
    /\ routeLayer = <<>>
    /\ plots = <<>>
    /\ created = 0

notUI == <<statsVars, fileVars, pageVars, apiVars, mapVars, textVars>>

\* map.ts 204-217: createSelectableGPXTrace puts the circle markers of the
\* trace on the map, and takes none away.  A marker is live while the page
\* whose handlePointSelection it calls is shown.
Selectable(shown, data, live) == shown \cup {[trace |-> data[1], live |-> live]}

\* a polyline is [kind, id, shows]: a "trace" polyline shows a trace, a
\* "route" polyline a route.  The id stands for the identity of the object:
\* the n-th polyline that L.polyline has made for the page bears n.
NewId(n) == n + 1

\* the map, the two layer variables of the page and the plot calls that
\* await their import after a step.  No call is made that would be for
\* more than the MaxPolylines-th polyline of the page.
Drawn(ls, g, r, calls, n) ==
    /\ n + Len(calls) <= MaxPolylines
    /\ layers' = ls
    /\ gpxLayer' = g
    /\ routeLayer' = r
    /\ plots' = calls
    /\ created' = n

\* if (existingLayer) map.removeLayer(existingLayer)
removeLayer(ls, existingLayer) ==
    IF existingLayer = undefined THEN ls
    ELSE {l \in ls : l.id # existingLayer[1]}

\* map.ts 87-99, 136-149 and 180-192: the existing layer goes, the new
\* polyline is added
PolylineReplacing(ls, existingLayer, kind, id, shows) ==
    removeLayer(ls, existingLayer) \cup {[kind |-> kind, id |-> id, shows |-> shows]}

\* map.ts 78-114, the polylines on the map afterwards
plotGPXTrace(ls, data, existingLayer, id) ==
    PolylineReplacing(ls, existingLayer, "trace", id, data)

\* map.ts 170-239
createSelectableGPXTrace(ls, data, existingLayer, id) ==
    PolylineReplacing(ls, existingLayer, "trace", id, data)

\* map.ts 125-160, up to the polyline being on the map
plotInterpolatedRoute(ls, routeData, existingLayer, id) ==
    PolylineReplacing(ls, existingLayer, "route", id, routeData)

\* a call of one of the three up to its await import('leaflet') (map.ts 84,
\* 133, 177): fn and the arguments it was given, to whom the caller assigns
\* the polyline returned ("gpxLayer", "routeLayer" or "nobody"), the upload
\* whose handleFileUpload awaits it, and for a route whether both end
\* points were given.  live: the page that called is still shown.
PlotCall(fn, data, existingLayer, to, upload, ends) ==
    [fn |-> fn, data |-> data, existingLayer |-> existingLayer, to |-> to,
     upload |-> upload, ends |-> ends, live |-> TRUE]

\* the calls of the child page go on when the page is destroyed: what they
\* return is assigned to the variables of a page that is gone, and their
\* markers call its handlePointSelection.  plotGPXTrace is called by the
\* layout, which stays.
Orphaned(calls) ==
    [i \in DOMAIN calls |->
        IF calls[i].fn = "plotGPXTrace" THEN calls[i]
        ELSE [calls[i] EXCEPT !.to = "nobody", !.live = FALSE]]

\* gpx/interpolate/+page.svelte 36-41: the $effect, run on a change of map,
\* gpxData or gpxLayer; it calls createSelectableGPXTrace and drops what
\* that returns.  It runs first when the child page is created, and not
\* at all while the layout does not render the child.  The standalone page
\* has no such effect.
Effect(m, data, existingLayer) ==
    IF page = "gpx" /\ Rendered(data) /\ m /\ data # null
    THEN <<PlotCall("createSelectableGPXTrace", data[1], existingLayer, "nobody",
                    <<>>, TRUE)>>
    ELSE <<>>

\* onMount: initializeMap has returned the map.  On the gpx page the $effect
\* of the child page then calls for the loaded trace to be made selectable.
MapReady ==
    /\ ~map
    /\ map' = TRUE
    /\ Drawn(layers, gpxLayer, routeLayer, plots \o Effect(TRUE, gpxData, gpxLayer), created)
    /\ UNCHANGED <<page, gpxData, markers, selectedPoints, routeResult, isInterpolating,
                   interpolationError, routingService, uploads, routing, abandoned,
                   notUI>>

\* handleFileUpload up to its await: the user has chosen a file
HandleFileUpload(c) ==
    /\ Cardinality(uploads) < MaxUploads
    /\ c \notin uploads
    /\ uploads' = uploads \cup {c}
    /\ UNCHANGED <<page, map, gpxData, markers, selectedPoints, routeResult,
                   isInterpolating, interpolationError, routingService, routing,
                   abandoned, layers, gpxLayer, routeLayer, plots, created, notUI>>

\* interpolate/+page.svelte 80-82: the standalone page resets the selection;
\* on the gpx page the selection lasts as long as the child page
SelectionAfterUpload(sel, data) ==
    IF page = "standalone" \/ Destroys(data) THEN <<>> ELSE sel
RouteAfterUpload(r, data) ==
    IF page = "standalone" \/ Destroys(data) THEN null ELSE r

\* interpolate/+page.svelte 85-87: createSelectableGPXTrace is called with
\* the gpxLayer of now, and its polyline will be kept as gpxLayer
PlotStandalone(data, c) ==
    <<PlotCall("createSelectableGPXTrace", data[1], gpxLayer, "gpxLayer", <<c>>, TRUE)>>

\* gpx/+layout.svelte 89-91 and the $effect of the child page: plotGPXTrace
\* is called with the gpxLayer of now, then the $effect queued by the
\* assignment of gpxData, or by the creation of the child page, runs, with
\* the same gpxLayer
PlotGpx(data, c) ==
    <<PlotCall("plotGPXTrace", data[1], gpxLayer, "gpxLayer", <<c>>, TRUE)>>
        \o Effect(TRUE, data, gpxLayer)

\* the uploads whose handleFileUpload awaits its plot
Plotting == {plots[i].upload[1] : i \in {j \in DOMAIN plots : plots[j].upload # <<>>}}

\* the request of interpolateRoute that a destroyed page leaves in flight:
\* its answer will be plotted in place of the routeLayer of that page
Abandoned(sent, existingLayer) ==
    [start |-> sent.start, end |-> sent.end, existingLayer |-> existingLayer]

\* handleFileUpload after its await: processGPXFile has settled.
\* standalone: interpolate/+page.svelte 74-90; gpx: gpx/+layout.svelte 82-94
\* followed by the $effect of gpx/interpolate/+page.svelte 36-41, and by
\* the {#if gpxData && traceStats} of gpx/+layout.svelte 139-143, which
\* creates the child page or destroys it with all its variables.  Without
\* a map, or with a file that is rejected, the handler returns.
UploadSettles(c) ==
    /\ c \in uploads \ Plotting
    /\ IF c.ok
       THEN LET data == <<c.trace>>
                gone == Destroys(data)
            IN /\ gpxData' = data
               /\ selectedPoints' = SelectionAfterUpload(selectedPoints, data)
               /\ routeResult' = RouteAfterUpload(routeResult, data)
               /\ isInterpolating' = IF gone THEN FALSE ELSE isInterpolating
               /\ interpolationError' = IF gone THEN null ELSE interpolationError
               /\ routingService' = IF gone THEN "osrm" ELSE routingService
               /\ routing' = IF gone THEN <<>> ELSE routing
               /\ abandoned' = IF gone /\ routing # <<>>
                               THEN Append(abandoned, Abandoned(routing[1], routeLayer))
                               ELSE abandoned
               /\ markers' = IF gone
                             THEN {[trace |-> m.trace, live |-> FALSE] : m \in markers}
                             ELSE markers
               /\ uploads' = IF map THEN uploads ELSE uploads \ {c}
               /\ Drawn(layers, gpxLayer, IF gone THEN undefined ELSE routeLayer,
                        (IF gone THEN Orphaned(plots) ELSE plots)
                            \o (IF ~map THEN <<>>
                                ELSE IF page = "standalone" THEN PlotStandalone(data, c)
                                ELSE PlotGpx(data, c)),
                        created)
       ELSE /\ uploads' = uploads \ {c}
            /\ UNCHANGED <<gpxData, markers, selectedPoints, routeResult,
                           isInterpolating, interpolationError, routingService,
                           routing, abandoned, layers, gpxLayer, routeLayer, plots,
                           created>>
    /\ UNCHANGED <<page, map, notUI>>

\* the template: the service select and the Interpolate Route and Reset
\* Selection buttons are rendered inside {#if selectedPoints.length === 2}
\* (interpolate/+page.svelte 250, gpx/interpolate/+page.svelte 140), itself
\* inside {#if gpxData && traceStats} (interpolate/+page.svelte 210,
\* gpx/+layout.svelte 139)
Controls ==
    /\ gpxData # null
    /\ StatsOfTrace(gpxData) # null
    /\ Len(selectedPoints) = 2

SelectionAfterClickOffByOne(sel, point) ==
    IF Len(sel) > 2 THEN <<point>> ELSE Append(sel, point)

\* handlePointSelection, the same on both pages
SelectionAfterClick(sel, point) ==
    IF Len(sel) >= 2 THEN <<point>> ELSE Append(sel, point)

\* a click on one of the circle markers on the map that call the
\* handlePointSelection of the page shown
HandlePointSelection(point) ==
    /\ [trace |-> point.trace, live |-> TRUE] \in markers
    /\ selectedPoints' = SelectionAfterClick(selectedPoints, point)
    /\ UNCHANGED <<page, map, gpxData, markers, routeResult, isInterpolating,
                   interpolationError, routingService, uploads, routing, abandoned,
                   layers, gpxLayer, routeLayer, plots, created, notUI>>

\* the service select of the page
SelectService(service) ==
    /\ Controls
    /\ routingService # service
    /\ routingService' = service
    /\ UNCHANGED <<page, map, gpxData, markers, selectedPoints, routeResult,
                   isInterpolating, interpolationError, uploads, routing, abandoned,
                   layers, gpxLayer, routeLayer, plots, created, notUI>>

\* where the request of a service goes: lib/routing.ts 42 and 91
ServiceUrl(service) ==
    IF service = "osrm" THEN "https://router.project-osrm.org/route/v1/"
    ELSE "/api/route"

\* the bug: the end point given as start and the start point as end
RoutingRequestSwapped(service, sel) ==
    [service |-> service, url |-> ServiceUrl(service), start |-> sel[2], end |-> sel[1]]

\* interpolate/+page.svelte 122-130: the request of getRouteOSRM or of the
\* client-side getRouteORS for the two selected points
RoutingRequest(service, sel) ==
    [service |-> service, url |-> ServiceUrl(service), start |-> sel[1], end |-> sel[2]]

\* what interpolateRoute reads and writes, and the request it has in flight
PageState ==
    [map |-> map, selectedPoints |-> selectedPoints,
     routingService |-> routingService, isInterpolating |-> isInterpolating,
     interpolationError |-> interpolationError, routeResult |-> routeResult,
     routing |-> routing]

\* interpolateRoute up to its await (interpolate/+page.svelte 112-130,
\* gpx/interpolate/+page.svelte 63-81): the early return, else the two
\* assignments and the call of the service
interpolateRoute(st) ==
    IF ~st.map \/ Len(st.selectedPoints) # 2
    THEN st
    ELSE [st EXCEPT !.isInterpolating = TRUE,
                    !.interpolationError = null,
                    !.routing = <<RoutingRequest(st.routingService,
                                                 st.selectedPoints)>>]

\* a click on Interpolate Route: the button is there with two points
\* selected and is disabled while isInterpolating, so that no click takes
\* the early return of the function
InterpolateRoute ==
    /\ Controls
    /\ ~isInterpolating
    /\ LET st == interpolateRoute(PageState)
       IN /\ isInterpolating' = st.isInterpolating
          /\ interpolationError' = st.interpolationError
          /\ routing' = st.routing
    /\ UNCHANGED <<page, map, gpxData, markers, selectedPoints, routeResult,
                   routingService, uploads, abandoned, layers, gpxLayer, routeLayer,
                   plots, created, notUI>>

\* interpolateRoute after the await of its service (interpolate/+page.svelte
\* 123-141).  An answer is assigned to routeResult and plotInterpolatedRoute
\* is called with the points selected by now and the routeLayer of now; a
\* failure goes to the catch and the finally.
RouteSettles(ok) ==
    /\ routing # <<>>
    /\ routing' = <<>>
    /\ IF ok
       THEN /\ routeResult' = <<[start |-> routing[1].start, end |-> routing[1].end]>>
            /\ Drawn(layers, gpxLayer, routeLayer,
                     Append(plots, PlotCall("plotInterpolatedRoute", routeResult'[1],
                                            routeLayer, "routeLayer", <<>>,
                                            Len(selectedPoints) = 2)),
                     created)
            /\ UNCHANGED <<isInterpolating, interpolationError>>
       ELSE /\ interpolationError' = <<"Failed to get route">>
            /\ isInterpolating' = FALSE
            /\ UNCHANGED <<routeResult, layers, gpxLayer, routeLayer, plots, created>>
    /\ UNCHANGED <<page, map, gpxData, markers, selectedPoints, routingService,
                   uploads, abandoned, notUI>>

\* interpolateRoute of a page that has been destroyed, after the await of
\* its service: the answer is plotted like any other, in place of the
\* routeLayer that page had; what the call assigns and catches stays with
\* the page that is gone.
AbandonedSettles(i, ok) ==
    /\ i \in DOMAIN abandoned
    /\ abandoned' = [j \in 1..(Len(abandoned) - 1) |->
                        IF j < i THEN abandoned[j] ELSE abandoned[j + 1]]
    /\ Drawn(layers, gpxLayer, routeLayer,
             plots \o (IF ok
                       THEN Orphaned(<<PlotCall("plotInterpolatedRoute",
                                               [start |-> abandoned[i].start,
                                                end |-> abandoned[i].end],
                                               abandoned[i].existingLayer,
                                               "nobody", <<>>, TRUE)>>)
                       ELSE <<>>),
             created)
    /\ UNCHANGED <<page, map, gpxData, markers, selectedPoints, routeResult,
                   isInterpolating, interpolationError, routingService, uploads,
                   routing, notUI>>

\* resetSelection (interpolate/+page.svelte 151-165, gpx/interpolate/
\* +page.svelte 102-116); the button is there with two points selected and
\* is disabled while isInterpolating.
\* createSelectableGPXTrace is called and not awaited, the polyline it
\* returns is not kept; the route polyline goes at once.
ResetSelection ==
    /\ Controls
    /\ ~isInterpolating
    /\ selectedPoints' = <<>>
    /\ routeResult' = null
    /\ Drawn(removeLayer(layers, IF map THEN routeLayer ELSE undefined),
             gpxLayer, routeLayer,
             plots \o (IF map /\ gpxData # null
                       THEN <<PlotCall("createSelectableGPXTrace", gpxData[1], gpxLayer,
                                       "nobody", <<>>, TRUE)>>
                       ELSE <<>>),
             created)
    /\ UNCHANGED <<page, map, gpxData, markers, isInterpolating, interpolationError,
                   routingService, uploads, routing, abandoned, notUI>>

\* the polylines on the map when the call has removed its existingLayer and
\* added its polyline
Plotted(call, id) ==
    CASE call.fn = "plotGPXTrace" ->
             plotGPXTrace(layers, call.data, call.existingLayer, id)
      [] call.fn = "createSelectableGPXTrace" ->
             createSelectableGPXTrace(layers, call.data, call.existingLayer, id)
      [] call.fn = "plotInterpolatedRoute" ->
             plotInterpolatedRoute(layers, call.data, call.existingLayer, id)

\* import('leaflet') of the oldest waiting call completes, in the task of
\* the call or in a later one as the host chooses, and the call goes on:
\* map.ts 87-113, 136-159, 180-238.  Then its caller goes on:
\* handleFileUpload assigns gpxLayer and returns (on the gpx page the
\* $effect runs again for the new gpxLayer); interpolateRoute assigns
\* routeLayer, or catches the TypeError that plotInterpolatedRoute throws
\* at the lat of a missing end point, its polyline already on the map, and
\* ends in its finally.
ImportSettles ==
    /\ plots # <<>>
    /\ LET call == Head(plots)
           id == NewId(created)
           g == IF call.to = "gpxLayer" THEN <<id>> ELSE gpxLayer
           r == IF call.to = "routeLayer" /\ call.ends THEN <<id>> ELSE routeLayer
       IN /\ Drawn(Plotted(call, id), g, r,
                   Tail(plots) \o (IF call.to = "gpxLayer"
                                   THEN Effect(map, gpxData, g) ELSE <<>>),
                   id)
          /\ markers' = IF call.fn = "createSelectableGPXTrace"
                        THEN Selectable(markers, <<call.data>>, call.live)
                        ELSE markers
          /\ uploads' = IF call.upload # <<>> THEN uploads \ {call.upload[1]} ELSE uploads
          /\ isInterpolating' = IF call.to = "routeLayer" THEN FALSE ELSE isInterpolating
          /\ interpolationError' =
                 IF call.to = "routeLayer" /\ ~call.ends
                 THEN <<"Cannot read properties of undefined (reading 'lat')">>
                 ELSE interpolationError
    /\ UNCHANGED <<page, map, gpxData, selectedPoints, routeResult, routingService,
                   routing, abandoned, notUI>>

NextUI ==
    \/ MapReady
    \/ \E c \in Chosen : HandleFileUpload(c)
    \/ \E c \in Chosen : UploadSettles(c)
    \/ \E point \in TracePoints : HandlePointSelection(point)
    \/ \E service \in Services : SelectService(service)
    \/ InterpolateRoute
    \/ \E ok \in BOOLEAN : RouteSettles(ok)
    \/ \E i \in 1..MaxPolylines, ok \in BOOLEAN : AbandonedSettles(i, ok)
    \/ ResetSelection
    \/ ImportSettles

SpecUI == InitUI /\ [][NextUI]_vars

\* C13: on both interpolation pages the selection always holds 0, 1 or 2
\* points; a click with fewer than 2 points selected appends the clicked
\* point, and a click with 2 selected leaves just the clicked point.
C13_SelectionAtMostTwo ==
    [][/\ Len(selectedPoints) <= 2
       /\ Len(selectedPoints') <= 2
       /\ \A point \in TracePoints :
              HandlePointSelection(point) =>
                  selectedPoints' = IF Len(selectedPoints) < 2
                                    THEN selectedPoints \o <<point>>
                                    ELSE <<point>>]_vars

\* a third click has replaced the selection of the two points of the route
C13_Witness ==
    /\ map
    /\ Len(selectedPoints) = 1
    /\ routeResult # null
    /\ selectedPoints[1] \notin {routeResult[1].start, routeResult[1].end}

\* a new file has been loaded successfully
Loaded == \E c \in Chosen : c.ok /\ UploadSettles(c)

\* C14: on both interpolation pages, once a new GPX file has been loaded
\* successfully the selection is empty and routeResult is null.
C14_UploadResetsSelection ==
    [][Loaded => selectedPoints' = <<>> /\ routeResult' = null]_vars

\* on the gpx page a further file of two points has been loaded with two
\* points selected: its plotGPXTrace awaits the import, the selection is
\* still there
C14_Witness ==
    /\ page = "gpx"
    /\ gpxData = <<"A">>
    /\ markers = {[trace |-> "A", live |-> TRUE]}
    /\ Len(selectedPoints) = 2
    /\ \E i \in DOMAIN plots : plots[i].fn = "plotGPXTrace" /\ plots[i].upload # <<>>

-----------------------------------------------------------------------------
(* POST /api/route (routes/api/route/+server.ts), the server-side          *)
(* getRouteORS (lib/server/routing.ts) and the client-side getRouteORS     *)
(* (lib/routing.ts).  A JSON value is a record with its type; an object    *)
(* that may be a point has lat and lon, of type "undefined" when the       *)
(* property is missing.                                                    *)

JUndefined == [type |-> "undefined"]
JNull == [type |-> "null"]
JString(text) == [type |-> "string", text |-> text]
JNumber(n) == [type |-> "number", num |-> n]
JObject(lat, lon) == [type |-> "object", lat |-> lat, lon |-> lon]

\* !v
Falsy(v) ==
    \/ v.type \in {"undefined", "null"}
    \/ v.type = "string" /\ v.text = ""
    \/ v.type = "number" /\ v.num \in {0, NaN}

\* +server.ts 31-44
isValidPoint(point) ==
    IF Falsy(point) \/ point.type # "object" THEN FALSE
    ELSE /\ point.lat.type # "undefined"
         /\ point.lon.type # "undefined"
         /\ point.lat.type = "number"
         /\ point.lon.type = "number"
         /\ ~isNaN(point.lat.num)
         /\ ~isNaN(point.lon.num)

\* the bodies a request may carry: text that is no JSON, or a JSON value
PointValues ==
    {JUndefined, JNull, JString("0,0"), JNumber(0),
     JObject(JUndefined, JUndefined),
     JObject(JNumber(0), JUndefined),
     JObject(JString("0"), JNumber(90)),
     JObject(JNumber(0), JNumber(0)),
     JObject(JNumber(0), JNumber(90))}
Bodies ==
    {[kind |-> k, startPoint |-> JUndefined, endPoint |-> JUndefined] :
         k \in {"unparseable", "null", "number"}}
        \cup [kind : {"object"}, startPoint : PointValues, endPoint : PointValues]

\* what OpenRouteService does with a request of the server
Replies ==
    {[kind |-> "network"],
     [kind |-> "status", status |-> 403],
     [kind |-> "empty"],
     [kind |-> "route"]}

Keys == {<<>>, <<"">>, <<"secret">>}

Returned(v) == [thrown |-> FALSE, value |-> <<v>>, message |-> <<>>, sent |-> <<>>]
Thrown(m) == [thrown |-> TRUE, value |-> <<>>, message |-> m, sent |-> <<>>]
Sending(reqs, o) == [o EXCEPT !.sent = reqs \o o.sent]

OrsUrl == "https://api.openrouteservice.org/v2/directions/foot-walking/geojson"

OrsHeadersWithoutKey(apiKey) ==
    [h \in {"Content-Type", "Accept"} |->
        IF h = "Content-Type" THEN "application/json"
        ELSE "application/json, application/geo+json"]

\* routing.ts (server) 146-150
OrsHeaders(apiKey) ==
    [h \in {"Content-Type", "Authorization", "Accept"} |->
        CASE h = "Content-Type" -> "application/json"
          [] h = "Authorization" -> apiKey
          [] OTHER -> "application/json, application/geo+json"]

\* routing.ts (server) 127-152: the request sent to OpenRouteService
OrsRequest(startPoint, endPoint, apiKey) ==
    [url |-> OrsUrl,
     method |-> "POST",
     headers |-> OrsHeaders(apiKey),
     coordinates |-> <<<<startPoint.lon.num, startPoint.lat.num>>,
                       <<endPoint.lon.num, endPoint.lat.num>>>>]

\* routing.ts (server) 154-187: what becomes of the answer
OrsOutcome(startPoint, endPoint, reply) ==
    CASE reply.kind = "network" -> Thrown(<<"fetch failed">>)
      [] reply.kind = "status" ->
             Thrown(<<"OpenRouteService API error (", "403", "): ", "Forbidden">>)
      [] reply.kind = "empty" -> Thrown(<<"No route found between the selected points">>)
      [] OTHER -> Returned([route |-> <<startPoint, endPoint>>])

\* routing.ts (server) 188-195
Rethrown(prefix, o) == IF o.thrown THEN [o EXCEPT !.message = <<prefix>> \o @] ELSE o

\* routing.ts (server) 100-196
getRouteORS(startPoint, endPoint, apiKey, reply) ==
    Rethrown("Failed to get route from OpenRouteService: ",
        IF apiKey = <<>> \/ apiKey[1] = ""
        THEN Thrown(<<"OPENROUTESERVICE_API_KEY environment variable is not set">>)
        ELSE Sending(<<OrsRequest(startPoint, endPoint, apiKey[1])>>,
                     OrsOutcome(startPoint, endPoint, reply)))

\* json(data, {status})
Json(status, error, value) == [status |-> status, error |-> error, result |-> value]

\* +server.ts 9-20: the body of the try block
Try(body, apiKey, reply) ==
    CASE body.kind = "unparseable" -> Thrown(<<"Unexpected token in JSON">>)
      [] body.kind = "null" ->
             Thrown(<<"Cannot destructure property 'startPoint' of 'data' as it is null.">>)
      [] OTHER ->
             IF \/ Falsy(body.startPoint) \/ Falsy(body.endPoint)
                \/ ~isValidPoint(body.startPoint) \/ ~isValidPoint(body.endPoint)
             THEN Returned(Json(400, <<"Invalid start or end point">>, <<>>))
             ELSE LET o == getRouteORS(body.startPoint, body.endPoint, apiKey, reply)
                  IN IF o.thrown THEN o
                     ELSE Sending(o.sent, Returned(Json(200, <<>>, o.value)))

CatchNothing(o) == o

\* +server.ts 21-27
Catch(o) ==
    IF o.thrown THEN Sending(o.sent, Returned(Json(500, o.message, <<>>))) ELSE o

InitApi ==
    /\ points = <<>>
    /\ NoCall /\ NoFile /\ NoPage /\ NoUI /\ NoMap /\ NoText
    /\ env \in Keys
    /\ request = <<>>
    /\ response = <<>>
    /\ thrown = FALSE
    /\ outbound = <<>>
    /\ fetched = <<>>

notApi == <<statsVars, fileVars, pageVars, uiVars, mapVars, textVars>>

\* +server.ts 6-9: the handler is called with a request and awaits
\* request.json()
POST(body) ==
    /\ request = <<>>
    /\ request' = <<body>>
    /\ UNCHANGED <<env, response, thrown, outbound, fetched, notApi>>

\* the handler has a request and has neither answered nor thrown
Handling == request # <<>> /\ response = <<>> /\ ~thrown

\* what the handler sends does not depend on what comes back
NoReply == [kind |-> "network"]

\* +server.ts 9-18 with routing.ts (server) 105-152: the body has been
\* read.  The handler answers (a body that is no JSON or not two valid
\* points, no key), or getRouteORS sends its request and awaits the fetch.
BodyRead ==
    /\ Handling
    /\ outbound = <<>>
    /\ LET o == Catch(Try(request[1], env, NoReply))
       IN IF o.sent = <<>>
          THEN /\ thrown' = o.thrown
               /\ response' = o.value
               /\ UNCHANGED outbound
          ELSE /\ outbound' = o.sent
               /\ UNCHANGED <<thrown, response>>
    /\ UNCHANGED <<env, request, fetched, notApi>>

\* routing.ts (server) 154-196 and +server.ts 20-27: the fetch has settled,
\* and getRouteORS and the handler run to the answer
OrsReplies(reply) ==
    /\ Handling
    /\ outbound # <<>>
    /\ LET o == Catch(Try(request[1], env, reply))
       IN /\ thrown' = o.thrown
          /\ response' = o.value
    /\ UNCHANGED <<env, request, outbound, fetched, notApi>>

\* routing.ts (client) 91-101: the request the browser sends
ClientRequest(startPoint, endPoint) ==
    [url |-> "/api/route",
     method |-> "POST",
     headers |-> [h \in {"Content-Type"} |-> "application/json"],
     body |-> [startPoint |-> startPoint, endPoint |-> endPoint,
               options |-> [profile |-> "foot-walking", preference |-> "recommended"]]]

\* routing.ts (client) 85-101: getRouteORS up to its fetch
ClientGetRouteORS(startPoint, endPoint) ==
    /\ fetched = <<>>
    /\ fetched' = <<ClientRequest(startPoint, endPoint)>>
    /\ UNCHANGED <<env, request, response, thrown, outbound, notApi>>

NextApi ==
    \/ \E body \in Bodies : POST(body)
    \/ BodyRead
    \/ \E reply \in Replies : OrsReplies(reply)
    \/ \E startPoint, endPoint \in {p \in PointValues : isValidPoint(p)} :
           ClientGetRouteORS(startPoint, endPoint)

SpecApi == InitApi /\ [][NextApi]_vars

\* what the claims take a valid point to be: an object whose lat and lon
\* are numbers other than NaN
ValidPoint(v) ==
    /\ v.type = "object"
    /\ v.lat.type = "number" /\ v.lat.num # NaN
    /\ v.lon.type = "number" /\ v.lon.num # NaN
BothValid(body) == ValidPoint(body.startPoint) /\ ValidPoint(body.endPoint)

Answered == request # <<>> /\ response # <<>>
RouteError == "Failed to get route from OpenRouteService: "
\* the answer shows that the handler went into getRouteORS
CalledGetRouteORS ==
    /\ Answered
    /\ \/ response[1].status = 200
       \/ response[1].error # <<>> /\ response[1].error[1] = RouteError

\* C16: whenever the body is JSON whose startPoint or endPoint is missing,
\* is not an object, or has a lat or lon that is not a non-NaN number, POST
\* answers 400 "Invalid start or end point" without calling getRouteORS;
\* getRouteORS is called only when both points are valid.
C16_InvalidPointsGet400 ==
    /\ (request # <<>> /\ request[1].kind # "unparseable" /\ ~BothValid(request[1])) =>
           /\ outbound = <<>>
           /\ Answered =>
                  /\ response[1].status = 400
                  /\ response[1].error = <<"Invalid start or end point">>
    /\ CalledGetRouteORS => BothValid(request[1])

\* a body with a valid start and an end without lon has been answered
C16_Witness ==
    /\ Answered
    /\ request[1].kind = "object"
    /\ ValidPoint(request[1].startPoint)
    /\ request[1].endPoint = JObject(JNumber(0), JUndefined)
    /\ response[1].status = 400

\* C17: POST never throws; an unparseable body, a missing key, an upstream
\* error and a missing route each give a JSON answer with status 500 that
\* carries the message, and a successful routing call gives the route with
\* status 200.
C17_NeverThrows ==
    /\ ~thrown
    /\ Answered =>
           /\ request[1].kind = "unparseable" =>
                  response[1].status = 500 /\ response[1].error # <<>>
           /\ (BothValid(request[1]) /\ outbound = <<>>) =>
                  /\ response[1].status = 500
                  /\ response[1].error[1] = RouteError
           /\ (BothValid(request[1]) /\ outbound # <<>>) =>
                  \/ /\ response[1].status = 200
                     /\ response[1].error = <<>>
                     /\ response[1].result # <<>>
                  \/ /\ response[1].status = 500
                     /\ response[1].error[1] = RouteError
                     /\ Len(response[1].error) >= 2

\* an upstream error has been answered with 500
C17_Witness ==
    /\ Answered
    /\ outbound # <<>>
    /\ response[1].status = 500
    /\ response[1].error[2] = "OpenRouteService API error ("

KeyIsSet == env # <<>> /\ env[1] # ""

\* C18: the server sends a request to OpenRouteService only when
\* OPENROUTESERVICE_API_KEY is set, every request it sends carries the key
\* in its Authorization header, without the key getRouteORS throws and
\* nothing is sent, and the request of the client carries no key.
C18_KeyOnlyOnServer ==
    /\ outbound # <<>> => KeyIsSet
    /\ \A i \in 1..Len(outbound) :
           /\ "Authorization" \in DOMAIN outbound[i].headers
           /\ outbound[i].headers["Authorization"] = env[1]
    /\ (Answered /\ BothValid(request[1]) /\ ~KeyIsSet) =>
           /\ outbound = <<>>
           /\ response[1].error =
                  <<RouteError, "OPENROUTESERVICE_API_KEY environment variable is not set">>
    /\ \A i \in 1..Len(fetched) :
           /\ DOMAIN fetched[i].headers = {"Content-Type"}
           /\ DOMAIN fetched[i].body = {"startPoint", "endPoint", "options"}
           /\ DOMAIN fetched[i].body.options = {"profile", "preference"}

\* the server has sent a request with the key and the client one without
C18_Witness ==
    /\ KeyIsSet
    /\ Len(outbound) = 1
    /\ outbound[1].headers["Authorization"] = "secret"
    /\ Len(fetched) = 1

-----------------------------------------------------------------------------
(* The distance of a quarter of the equator                                *)

OnEquatorAt(p, lon) == p.lat = 0 /\ p.lon = lon

\* C19: calculateDistance is the Haversine formula with an Earth radius of
\* exactly 6,371,000 m: from (0N, 0E) to (0N, 90E) it returns pi/2 * R,
\* 10,007,543 m to within one metre, and a track of just these two points
\* has that total distance.
C19_QuarterEquator ==
    /\ R = 6371000
    /\ (Called /\ Len(points) >= 2) =>
           /\ \A k \in 1..(Len(points) - 1) :
                  (OnEquatorAt(points[k], 0) /\ OnEquatorAt(points[k + 1], 90)) =>
                      Abs(calculateDistance(points[k], points[k + 1]) - 10007543) <= 1
           /\ (Len(points) = 2 /\ OnEquatorAt(points[1], 0) /\ OnEquatorAt(points[2], 90)) =>
                  /\ result # null
                  /\ \E d \in 10007542..10007544 :
                         result[1].totalDistance = Div(d, 1000)

\* the statistics of the track (0N, 0E), (0N, 90E) have been computed
C19_Witness ==
    /\ Called
    /\ Len(points) = 2
    /\ OnEquatorAt(points[1], 0)
    /\ OnEquatorAt(points[2], 90)
    /\ result # null
    /\ result[1].totalDistance = Div(MulDiv(R * 90, PiNum, 180 * PiDen), 1000)

-----------------------------------------------------------------------------
(* The copy of calculateStats in routes/gpx/+page.svelte (121-186), with   *)
(* the Haversine formula written out inside its loop                       *)

\* +page.svelte 159
PageR == 6371000

PageRTimes == [c \in {0, 90, 180} |-> MulDiv(PageR * c, PiNum, 180 * PiDen)]

\* +page.svelte 124-130
PageInitLocals ==
    [totalDistance |-> 0,
     totalElevationGain |-> 0,
     totalElevationLoss |-> 0,
     minElevation |-> Infinity,
     maxElevation |-> -Infinity,
     startTime |-> null,
     endTime |-> null]

\* +page.svelte 136-148
PageElevationStats(st, pts, k) ==
    LET point == pts[k] IN
    IF point.elevation # undefined
    THEN LET st1 == [st EXCEPT
                 !.minElevation = MathMin(st.minElevation, point.elevation[1]),
                 !.maxElevation = MathMax(st.maxElevation, point.elevation[1])]
         IN IF k > 1 /\ pts[k - 1].elevation # undefined
            THEN LET elevDiff == point.elevation[1] - OrZero(pts[k - 1].elevation)
                 IN IF elevDiff > 0
                    THEN [st1 EXCEPT !.totalElevationGain = @ + elevDiff]
                    ELSE [st1 EXCEPT !.totalElevationLoss = @ + Abs(elevDiff)]
            ELSE st1
    ELSE st

\* +page.svelte 151-154
PageTimeStats(st, pts, k) ==
    LET point == pts[k] IN
    IF point.time # undefined
    THEN [st EXCEPT !.startTime = IF st.startTime = null THEN point.time ELSE @,
                    !.endTime = point.time]
    ELSE st

\* +page.svelte 157-170
PageDistanceStats(st, pts, k) ==
    IF k > 1
    THEN LET prevPoint == pts[k - 1]
             point == pts[k]
             dphi == point.lat - prevPoint.lat
             dlam == point.lon - prevPoint.lon
             a2 == TwoSinSqHalf(dphi)
                     + MathCos(prevPoint.lat) * MathCos(point.lat) * TwoSinSqHalf(dlam)
             c == TwoAtan2(a2)
         IN [st EXCEPT !.totalDistance = @ + PageRTimes[c]]
    ELSE st

\* +page.svelte 132-171
PageLoopBody(st, pts, k) ==
    PageDistanceStats(PageTimeStats(PageElevationStats(st, pts, k), pts, k), pts, k)

RECURSIVE PageLoop(_, _, _)
PageLoop(st, pts, k) ==
    IF k > Len(pts) THEN st ELSE PageLoop(PageLoopBody(st, pts, k), pts, k + 1)

\* the bug: a copy that returns the metres
PageTraceStatsInMetres(st, pts) ==
    [totalDistance |-> Num(st.totalDistance),
     totalElevationGain |-> st.totalElevationGain,
     totalElevationLoss |-> st.totalElevationLoss,
     minElevation |-> IF st.minElevation = Infinity THEN null ELSE <<st.minElevation>>,
     maxElevation |-> IF st.maxElevation = -Infinity THEN null ELSE <<st.maxElevation>>,
     duration |-> IF st.startTime # null /\ st.endTime # null
                  THEN <<st.endTime[1] - st.startTime[1]>> ELSE null,
     startTime |-> st.startTime,
     endTime |-> st.endTime,
     pointCount |-> Len(pts)]

\* +page.svelte 173-185
PageTraceStats(st, pts) ==
    [totalDistance |-> Div(st.totalDistance, 1000),
     totalElevationGain |-> st.totalElevationGain,
     totalElevationLoss |-> st.totalElevationLoss,
     minElevation |-> IF st.minElevation = Infinity THEN null ELSE <<st.minElevation>>,
     maxElevation |-> IF st.maxElevation = -Infinity THEN null ELSE <<st.maxElevation>>,
     duration |-> IF st.startTime # null /\ st.endTime # null
                  THEN <<st.endTime[1] - st.startTime[1]>> ELSE null,
     startTime |-> st.startTime,
     endTime |-> st.endTime,
     pointCount |-> Len(pts)]

\* +page.svelte 121-186
PageCalculateStats(pts) ==
    IF Len(pts) < 2 THEN null
    ELSE <<PageTraceStats(PageLoop(PageInitLocals, pts, 1), pts)>>

\* the points of the tracks given to both routines: each position with and
\* without elevation and time
PagePoints ==
    {mkPoint(c[1], c[2], r[1], r[2]) :
        c \in CoordsRev,
        r \in {<<undefined, undefined>>, <<<<0>>, <<1000>>>>,
               <<<<10>>, <<0>>>>, <<<<10>>, undefined>>}}
PageTracks == TracksOf(PagePoints, MaxLen)

InitPage ==
    /\ points \in PageTracks
    /\ NoCall /\ NoFile /\ NoUI /\ NoApi /\ NoMap /\ NoText
    /\ traceStats = <<>>

\* +page.svelte 202: traceStats = calculateStats(gpxData.points), kept as
\* <<the value returned>>
PageCall ==
    /\ traceStats = <<>>
    /\ traceStats' = <<PageCalculateStats(points)>>
    /\ UNCHANGED <<statsVars, fileVars, uiVars, apiVars, mapVars, textVars>>

NextPage == Call \/ PageCall

SpecPage == InitPage /\ [][NextPage]_vars

\* C20: calculateStats of src/lib/stats.ts and the copy in
\* routes/gpx/+page.svelte return the same for every track: null together,
\* and otherwise equal in every field.
C20_SameAsInlineCopy ==
    (Called /\ traceStats # <<>>) =>
        /\ (traceStats[1] = null) = (result = null)
        /\ result # null =>
               /\ traceStats[1][1].totalDistance = result[1].totalDistance
               /\ traceStats[1][1].totalElevationGain = result[1].totalElevationGain
               /\ traceStats[1][1].totalElevationLoss = result[1].totalElevationLoss
               /\ traceStats[1][1].minElevation = result[1].minElevation
               /\ traceStats[1][1].maxElevation = result[1].maxElevation
               /\ traceStats[1][1].duration = result[1].duration
               /\ traceStats[1][1].startTime = result[1].startTime
               /\ traceStats[1][1].endTime = result[1].endTime
               /\ traceStats[1][1].pointCount = result[1].pointCount
               /\ DOMAIN traceStats[1][1] = DOMAIN result[1]

\* both routines have run on a track with distance, climb and timestamps
C20_Witness ==
    /\ Called
    /\ traceStats # <<>>
    /\ result # null
    /\ result[1].totalDistance # Num(0)
    /\ result[1].totalElevationGain > 0
    /\ result[1].duration # null
    /\ traceStats[1] = result

-----------------------------------------------------------------------------
(* interpolateRoute                                                        *)

\* a routing request has been issued in this step
Issued == routing' # <<>> /\ routing' # routing

\* interpolateRoute called in the state the page is in would return at once:
\* no request, isInterpolating, interpolationError and routeResult as they
\* are
ReturnsAtOnce ==
    LET st == interpolateRoute(PageState)
    IN /\ st.routing = routing
       /\ st.isInterpolating = isInterpolating
       /\ st.interpolationError = interpolationError
       /\ st.routeResult = routeResult

\* C21: interpolateRoute issues a routing request only when the map exists
\* and exactly two points are selected; the request goes to the service
\* chosen at that moment, with selectedPoints[0] as start and
\* selectedPoints[1] as end; called in any other state it leaves
\* isInterpolating, interpolationError and routeResult as they were.  The
\* first half is about every step of the page, a click being possible only
\* with two points selected; the second half is about the function in every
\* state the page can be in, whether or not the page offers the button.
C21_RequestOnlyWithMapAndTwoPoints ==
    /\ [][/\ Issued =>
                  /\ map
                  /\ Len(selectedPoints) = 2
                  /\ routing'[1].service = routingService
                  /\ routing'[1].url = (IF routingService = "osrm"
                                        THEN "https://router.project-osrm.org/route/v1/"
                                        ELSE "/api/route")
                  /\ routing'[1].start = selectedPoints[1]
                  /\ routing'[1].end = selectedPoints[2]
          /\ InterpolateRoute => (Issued /\ routeResult' = routeResult)]_vars
    /\ [](~(map /\ Len(selectedPoints) = 2) => ReturnsAtOnce)

\* a request to the ORS proxy is in flight for two different points
C21_Witness ==
    /\ map
    /\ isInterpolating
    /\ routing # <<>>
    /\ routing[1].service = "ors"
    /\ routing[1].url = "/api/route"
    /\ routing[1].start # routing[1].end
    /\ selectedPoints = <<routing[1].start, routing[1].end>>

\* the polylines of one kind on the map
Polylines(kind) == {l \in layers : l.kind = kind}

\* every upload, interpolation and reset has run to its end
AtRest == uploads = {} /\ plots = <<>> /\ ~isInterpolating /\ abandoned = <<>>

\* C23: after any sequence of uploads and selection resets, uploads whose
\* processing overlaps included, the map carries at most one GPX trace
\* polyline and at most one interpolated-route polyline, each being the one
\* most recently created: the trace polyline shows the trace loaded last,
\* the route polyline the route found last.
C23_OneTraceOneRoute ==
    AtRest =>
        /\ Cardinality(Polylines("trace")) <= 1
        /\ Cardinality(Polylines("route")) <= 1
        /\ \A l \in Polylines("trace") : gpxData # null /\ l.shows = gpxData[1]
        /\ \A l \in Polylines("route") : routeResult # null => l.shows = routeResult[1]

\* on the standalone page a second upload has replaced the polyline of the
\* first, with a route on the map
C23_Witness ==
    /\ page = "standalone"
    /\ AtRest
    /\ markers = [trace : {"A", "S"}, live : {TRUE}]
    /\ gpxData = <<"S">>
    /\ \E l \in layers : Polylines("trace") = {l} /\ l.shows = "S" /\ gpxLayer = <<l.id>>
    /\ \E l \in layers : Polylines("route") = {l} /\ routeLayer = <<l.id>>

-----------------------------------------------------------------------------
(* initializeMap (src/lib/map.ts 25-69) and getCurrentLocation             *)
(* (src/lib/location.ts).  A location is <<latitude, longitude>> in units  *)
(* of 0.0001 degree.                                                       *)

NewYork == <<407128, -740060>>
Paris == <<488566, 23522>>
Here == <<-338688, 1512093>>

\* what navigator.geolocation does: it is missing, it calls the success
\* callback with a position, or it calls the error callback with a message
Geolocations ==
    {[kind |-> "unsupported", coords |-> <<>>, message |-> ""],
     [kind |-> "position", coords |-> Here, message |-> ""],
     [kind |-> "error", coords |-> <<>>, message |-> "User denied Geolocation"],
     [kind |-> "error", coords |-> <<>>, message |-> "Timeout expired"]}

MapInitOptions ==
    [defaultLocation : Opt({Paris}), defaultZoom : Opt({0, 5}), useGeolocation : Opt(BOOLEAN)]

\* location.ts: getCurrentLocation, the outcome of its promise
getCurrentLocation(inBrowser, geo) ==
    IF ~inBrowser \/ geo.kind = "unsupported"
    THEN Rejected(<<"Geolocation is not supported by this browser">>)
    ELSE IF geo.kind = "position" THEN Fulfilled(geo.coords)
    ELSE Rejected(<<"Geolocation error: ", geo.message>>)

\* map.ts 31: an array is truthy, so only a missing location is replaced
DefaultLocationOf(opts) ==
    IF opts.defaultLocation = undefined THEN NewYork ELSE opts.defaultLocation[1]

\* map.ts 32: options.defaultZoom || 13, where 0 is falsy
DefaultZoomOf(opts) ==
    IF opts.defaultZoom = undefined \/ opts.defaultZoom[1] = 0 THEN 13
    ELSE opts.defaultZoom[1]

\* map.ts 33: options.useGeolocation !== false
UseGeolocationOf(opts) == opts.useGeolocation # <<FALSE>>

\* map.ts 35-68: the MapInitResult for the outcome of getCurrentLocation
MapInitResult(center, zoom, error) ==
    [map |-> [center |-> center, zoom |-> zoom], location |-> center, error |-> error]

\* map.ts 25-69: the outcome of the promise
initializeMap(opts, inBrowser, geo) ==
    IF ~inBrowser
    THEN Rejected(<<"Map can only be initialized in browser environment">>)
    ELSE IF UseGeolocationOf(opts)
    THEN LET located == getCurrentLocation(inBrowser, geo)
         IN IF located.state = "fulfilled"
            THEN Fulfilled(MapInitResult(located.value[1], 14, null))
            ELSE Fulfilled(MapInitResult(DefaultLocationOf(opts), DefaultZoomOf(opts),
                                         <<located.message>>))
    ELSE Fulfilled(MapInitResult(DefaultLocationOf(opts), DefaultZoomOf(opts), null))

InitMap ==
    /\ points = <<>>
    /\ NoCall /\ NoFile /\ NoPage /\ NoUI /\ NoApi /\ NoText
    /\ browser \in BOOLEAN
    /\ geolocation \in {<<g>> : g \in Geolocations}
    /\ options \in {<<o>> : o \in MapInitOptions}
    /\ mapInit = <<>>

\* the promise of a call that awaits its location or the import of leaflet
Awaiting(what) == [state |-> "pending", value |-> <<>>, message |-> <<what>>]

\* map.ts 25-42: a call of initializeMap(options) throws outside a browser;
\* in a browser it awaits getCurrentLocation() when geolocation is to be
\* used, and the import of leaflet when not
InitializeMap ==
    /\ options # <<>>
    /\ mapInit = <<>>
    /\ mapInit' = IF ~browser
                  THEN <<initializeMap(options[1], browser, geolocation[1])>>
                  ELSE IF UseGeolocationOf(options[1]) THEN <<Awaiting("location")>>
                  ELSE <<Awaiting("leaflet")>>
    /\ UNCHANGED <<browser, geolocation, options, statsVars, fileVars, pageVars, uiVars,
                   apiVars, textVars>>

\* map.ts 42-51: getCurrentLocation has settled, and the call goes on to
\* await the import of leaflet
LocationSettles ==
    /\ mapInit = <<Awaiting("location")>>
    /\ mapInit' = <<Awaiting("leaflet")>>
    /\ UNCHANGED <<browser, geolocation, options, statsVars, fileVars, pageVars, uiVars,
                   apiVars, textVars>>

\* map.ts 51-68: leaflet is there, the map is made and the result returned
LeafletImported ==
    /\ mapInit = <<Awaiting("leaflet")>>
    /\ mapInit' = <<initializeMap(options[1], browser, geolocation[1])>>
    /\ UNCHANGED <<browser, geolocation, options, statsVars, fileVars, pageVars, uiVars,
                   apiVars, textVars>>

NextMap ==
    \/ InitializeMap
    \/ LocationSettles
    \/ LeafletImported

SpecMap == InitMap /\ [][NextMap]_vars

\* geolocation was asked for and gave a position
Located ==
    /\ options[1].useGeolocation # <<FALSE>>
    /\ geolocation[1].kind = "position"
\* the message of the failure of geolocation
LocationFailure ==
    IF geolocation[1].kind = "unsupported"
    THEN <<"Geolocation is not supported by this browser">>
    ELSE <<"Geolocation error: ", geolocation[1].message>>

\* C22: initializeMap throws only when not running in a browser.  When
\* geolocation is disabled or fails it returns a map centered on
\* options.defaultLocation, or on [40.7128, -74.006] when none is given, at
\* zoom options.defaultZoom, or 13 when none is given, with error the
\* failure message, or null when geolocation was disabled.  When geolocation
\* succeeds the map is centered on the obtained location at zoom 14 with
\* error null.
C22_MapFallsBackToDefaults ==
    mapInit # <<>> =>
        /\ (mapInit[1].state = "rejected") = ~browser
        /\ mapInit[1].state = "fulfilled" =>
               LET r == mapInit[1].value[1]
                   o == options[1]
               IN IF Located
                  THEN /\ r.map.center = geolocation[1].coords
                       /\ r.map.zoom = 14
                       /\ r.error = null
                  ELSE /\ r.map.center = (IF o.defaultLocation # undefined
                                          THEN o.defaultLocation[1]
                                          ELSE <<407128, -740060>>)
                       /\ r.map.zoom = (IF o.defaultZoom # undefined
                                        THEN o.defaultZoom[1] ELSE 13)
                       /\ r.error = (IF o.useGeolocation = <<FALSE>>
                                     THEN null ELSE <<LocationFailure>>)

\* a denied geolocation has given a map at the defaults with the message
C22_Witness ==
    /\ mapInit # <<>>
    /\ mapInit[1].state = "fulfilled"
    /\ geolocation[1].message = "User denied Geolocation"
    /\ options[1].useGeolocation = undefined
    /\ mapInit[1].value[1].map = [center |-> <<407128, -740060>>, zoom |-> 13]
    /\ mapInit[1].value[1].error = <<<<"Geolocation error: ", "User denied Geolocation">>>>

-----------------------------------------------------------------------------
(* The duration shown: formatDuration of lib/stats.ts 71-81 and its copy   *)
(* in routes/gpx/+page.svelte 243-253.  A text is the sequence of its      *)
(* characters.                                                             *)

DurationTimes == {0, 60000, 3660000, 90060000}
DurationTracks == TracksOf(GPXPoint({<<0, 0>>}, {}, DurationTimes), MaxLen)
Durations == {-60000, -1, 0, 1, 59999, 60000, 3599999, 3600000, 3660000, 90000000}

InitText == points \in DurationTracks /\ InitRest

\* `${n}` of an integer
RECURSIVE String(_)
String(n) ==
    IF n < 0 THEN <<"-">> \o String(-n)
    ELSE IF n < 10 THEN <<Digits[n + 1]>>
    ELSE String(n \div 10) \o <<Digits[(n % 10) + 1]>>

\* a % b of JavaScript: the sign of the dividend
Remainder(a, b) == IF a >= 0 THEN a % b ELSE -((-a) % b)

NotAvailable == <<"N", "/", "A">>

\* stats.ts 71-81: !milliseconds holds of null and of 0
formatDuration(milliseconds) ==
    IF milliseconds = null \/ milliseconds[1] = 0 THEN NotAvailable
    ELSE LET hours == milliseconds[1] \div (1000 * 60 * 60)
             minutes == Remainder(milliseconds[1], 1000 * 60 * 60) \div (1000 * 60)
         IN IF hours > 0
            THEN String(hours) \o <<"h", " ">> \o String(minutes) \o <<"m">>
            ELSE String(minutes) \o <<"m">>

notText == <<statsVars, fileVars, pageVars, uiVars, apiVars, mapVars>>

\* a call of formatDuration: its argument and the text it returns
FormatDuration(milliseconds) ==
    /\ formatted' = <<[milliseconds |-> milliseconds,
                       text |-> formatDuration(milliseconds)]>>
    /\ UNCHANGED notText

\* stats.ts 88 and gpx/+page.svelte 289: the duration of the stats shown
FormatStats ==
    /\ result # null
    /\ FormatDuration(result[1].duration)

NextText ==
    \/ Call
    \/ FormatStats
    \/ \E d \in Opt(Durations) : FormatDuration(d)

SpecText == InitText /\ [][NextText]_vars

\* the text the claim gives for a duration above 0
ClaimedText(d) ==
    LET h == d \div 3600000
        m == (d % 3600000) \div 60000
    IN IF h > 0 THEN String(h) \o <<"h", " ">> \o String(m) \o <<"m">>
       ELSE String(m) \o <<"m">>

\* C24: formatDuration returns 'N/A' for a null duration and, for every
\* d > 0, '{h}h {m}m' when h = floor(d / 3600000) > 0 and '{m}m' otherwise,
\* with m = floor((d mod 3600000) / 60000) in 0..59; a duration that
\* calculateStats reports as a number is never shown as 'N/A'.
C24_DurationShown ==
    formatted # <<>> =>
        LET d == formatted[1].milliseconds
            text == formatted[1].text
        IN /\ d = null => text = NotAvailable
           /\ (d # null /\ d[1] > 0) =>
                  /\ (d[1] % 3600000) \div 60000 \in 0..59
                  /\ text = ClaimedText(d[1])
           /\ (result # null /\ result[1].duration # null /\ d = result[1].duration) =>
                  text # NotAvailable

\* the duration of a trace of 1 h 1 min has been shown as "1h 1m"
C24_Witness ==
    /\ result # null
    /\ result[1].duration = <<3660000>>
    /\ formatted = <<[milliseconds |-> <<3660000>>,
                      text |-> <<"1", "h", " ", "1", "m">>]>>

=============================================================================
